---- MODULE Spec2Model ----
(***************************************************************************)
(* Model of the parallel card pipeline of cartomata                        *)
(* (src/src/pipeline/parallel.rs): the CardQueue guarded by one mutex and  *)
(* one condition variable, the producer thread, the worker threads and     *)
(* PipelineJoinHandle::join.                                                *)
(*                                                                         *)
(* push, pop and done run with the queue mutex held from their first       *)
(* statement to their return or to the wait on the condition variable, and *)
(* nothing else reads or writes the queue state, so each of them is one    *)
(* step of its thread; a wait that ends leads back to the same step, where *)
(* wait_while evaluates its condition again under the mutex.               *)
(*                                                                         *)
(* The end of a closure (on_total and the return of the producer,          *)
(* on_finish and the return of a worker) is one step with the statement    *)
(* before it: it touches nothing another thread reads before the end.     *)
(*                                                                         *)
(* Thread 0 is the producer, threads 1..NWorkers are the workers, and the  *)
(* thread that called run_parallel(...).join() is tracked by joined; the   *)
(* handle it waits for is JoinWaitsFor.  A queue entry is the pair         *)
(* (index, card) of the code; of a card the model keeps whether its        *)
(* decode, render and output succeed.  on_iter_start is one step with     *)
(* the pop that returned the card.  A panic of a worker is an outcome of   *)
(* processing a card.                                                      *)
(*                                                                         *)
(* Further specifications share the variables: OptionsSpec                 *)
(* (ParallelismOptions::new and the spawn loop of run_parallel), SeqSpec   *)
(* (Pipeline::run of pipeline/sequential.rs, with process and              *)
(* LayerStack::render of layer.rs step by step), BufSpec (a parallel run   *)
(* on a source longer than the pipeline can hold), ValueSpec (PartialEq   *)
(* of data::Value), WakeSpec (a fair run on a source of cards only),      *)
(* LockSpec (the run with the lock of the queue mutex as a step of its    *)
(* own: push, pop and done are PushAt, PopAt and DoneAt at the position   *)
(* after the lock), OrderSpec (runs of 1..NWorkers workers), EitherSpec   *)
(* (a parallel or a sequential run), QueueSpec (a CardQueue called in any *)
(* order), BatchSpec (the options with set_batch_size, then the run),      *)
(* DecoderSpec (the run with every decode recorded), EquivSpec (a          *)
(* sequential and a parallel run of one source), CollectSpec (the run that *)
(* collects a CardResult per item), ScreenSpec (the u16 arithmetic of      *)
(* ProgressBar in logs.rs), LogSpec (run_parallel_with_logs of pipeline.rs *)
(* with its ProgressBar thread), BarSpec and BarFairSpec (the ProgressBar  *)
(* thread with senders of any LogMsg), ParseSpec (Parser::parse of         *)
(* data/predicate.rs on any token sequence) and ExprSpec (parse on the     *)
(* token sequences of expressions).                                        *)
(***************************************************************************)
EXTENDS Integers, Sequences, FiniteSets

\* ---- bounds of the model -------------------------------------------------
NWorkers == 2
MaxCards == 2
MaxCap == 2
MaxRequested == 5
MaxLayers == 2
\* the run that fills every place a card can be held in: its source and
\* its queue
BufCards == 5
BufCap == 1
\* the values compared: the integers of Int and the length of the text of
\* Str
MaxInt == 6
MaxStrLen == 2
\* the calls of done() on a queue used on its own
MaxDoneCalls == 2
\* the largest batch size passed to set_batch_size, and the calls of it
MaxBatch == 3
MaxBatchCalls == 2
\* the terminal sizes and the newlines of a message
MaxTermW == 28
MaxTermH == 5
MaxNewlines == 2
\* the LogMsgs sent to a ProgressBar used on its own
MaxMsgs == 2
\* the tokens of a source given to the predicate parser, and of an
\* expression of comparisons
MaxTokens == 7
MaxExprTokens == 12
MaxAvailable == 4

\* ---- threads, inputs -----------------------------------------------------
Producer == 0
Workers == 1..NWorkers
Threads == 0..NWorkers

\* what one item of the source is: a card whose processing succeeds, a card
\* whose decode/render/output fails, an Err item, an item on_read rejects
Cards == {"ok", "bad"}
Kinds == Cards \cup {"rerr", "skip"}
MaxItems == IF BufCards > MaxCards THEN BufCards ELSE MaxCards
Indices == 0..(MaxItems - 1)
NoEntry == [index |-> -1, card |-> "none"]
NoThread == -1

VARIABLES
    reqWorkers, \* the n_workers passed to ParallelismOptions::new
    avail,      \* thread::available_parallelism(), Unknown for its Err
    nWorkers,   \* ParallelismOptions.n_workers, 0 before new
    capacity,   \* ParallelismOptions.batch_size, then CardQueue.capacity
    handles,    \* the thread ids behind PipelineJoinHandle.handles
    queue,      \* CardQueueState.queue
    done,       \* CardQueueState.done
    pc,         \* position of every thread in its closure
    srcPos,     \* number of items the producer's iterator has yielded
    total,      \* the producer's local `total`
    pending,    \* the (index, card) the producer is pushing
    cur,        \* the (index, card) each worker holds
    result,     \* the Result each thread closure returned
    handle,     \* what run_parallel returned: "none" before it returns
    joined,     \* join has returned
    joinErr,    \* the i of Err(ThreadJoin{i}) join returned, NoThread for Ok
    \* ---- observations (visitor calls and queue traffic) ----
    started,    \* on_start(0) was called
    pushed,     \* entries inserted by push, in order
    popped,     \* entries returned by pop, in order
    lateCur,    \* workers holding an entry popped with done already set
    nones,      \* workers to which pop returned None
    waited,     \* the push of this turn of the producer's loop had to wait
    doneWoke,   \* how many workers done() woke from their wait in pop
    nStart,     \* on_iter_start calls per index
    nOk,        \* on_iter_ok calls per index
    nErr,       \* on_iter_err calls per index
    readErrs,   \* indices reported by on_read_err
    totals,     \* values reported by on_total
    finished,   \* worker ids passed to on_finish
    srcLen,     \* number of items the source yields
    srcKinds,   \* the kinds of item the source yields
    doneCalls,  \* per call of done() on a queue used on its own: the
                \* number of pushes and pops made before it
    batch,      \* the options passed to set_batch_size, in call order
    decCreated, \* per worker, the decoders its template.decoder() calls made
    decUsed,    \* <<thread, decoder>> per decode: the thread that decoded
                \* and the worker whose run created the decoder it used
    src,        \* the items of a source given in advance, <<>> if the
                \* source is not given
    collected,  \* the CardResults the collecting run has produced
    stepsRun,   \* the steps it has run on the card of pending
    screen,     \* a computation of the ProgressBar on the terminal size:
                \* its inputs and what came of it
    events,     \* the WorkerMsgs sent on the channel of run_parallel, in order
    logs,       \* the LogMsgs sent on the channel of ProgressBar::spawn
    logMain,    \* the thread in run_parallel_with_logs: its position, the
                \* WorkerMsgs it has received, its Sender<LogMsg>
    bar,        \* the ProgressBar and the position of its thread
    \* ---- the predicate parser ----
    lexTokens,  \* the source: which token the lexer can yield after which
    lexMax,     \* the most tokens the source holds
    lexed,      \* the tokens next_token has returned, in order
    token,      \* `token` of parse: the lookahead
    symbol_stack, \* Parser.symbol_stack
    state_stack,  \* Parser.state_stack, <<>> without a Parser
    parsed,     \* what parse returned
    \* ---- a comparison of two Values ----
    lhs, rhs,   \* the operands
    eqLR,       \* <<lhs == rhs>> once evaluated
    eqRL,       \* <<rhs == lhs>> once evaluated
    \* ---- one card in process (decode, LayerStack::render, output) ----
    nLayers,    \* number of layers of the decoded LayerStack
    canvas,     \* the layers rendered on the ImageSurface, in order
    renderRes,  \* what LayerStack::render returned for the card in process
    outputs     \* the calls of template.output: card index and result

vars == <<reqWorkers, avail, nWorkers, handles, capacity, queue, done, pc, srcPos, total, pending,
          cur, result, handle, joined, joinErr, started, pushed, popped, lateCur, nones,
          waited, doneWoke, nStart, nOk, nErr, readErrs, totals, finished,
          nLayers, canvas, renderRes, outputs, srcLen,
          srcKinds, lhs, rhs, eqLR, eqRL, doneCalls, batch,
          decCreated, decUsed, src, collected, stepsRun, screen,
          events, logs, logMain, bar, lexTokens, lexMax, lexed, token,
          symbol_stack, state_stack, parsed>>

qvars == <<queue, done>>
pvars == <<srcPos, total, pending>>
evars == <<started, nStart, nOk, nErr, readErrs, totals, finished>>
hvars == <<pushed, popped, lateCur, nones, waited, doneWoke>>
jvars == <<handle, handles, joined, joinErr>>
lvars == <<nLayers, canvas, renderRes, outputs>>
cvars == <<lhs, rhs, eqLR, eqRL>>
dvars == <<decCreated, decUsed>>
gvars == <<events, logs, logMain, bar>>
prsvars == <<lexTokens, lexMax, lexed, token, symbol_stack, state_stack,
             parsed>>
xvars == <<src, collected, stepsRun, screen, gvars, prsvars>>
svars == <<reqWorkers, avail, nWorkers, capacity, srcLen, srcKinds, cvars,
           doneCalls, batch, xvars>>
ovars == <<svars, dvars>>
ivars == <<ovars, lvars>>

WaitStates == {"push_wait", "pop_wait"}

\* the state a thread is in once a wait on the condition variable ended:
\* it re-acquires the mutex and wait_while evaluates its condition again
Relock(s) == IF s = "push_wait" THEN "push" ELSE "pop"

Waiters == {t \in Threads : pc[t] \in WaitStates}

\* Condvar::notify_all
NotifyAll(p) == [t \in Threads |-> IF p[t] \in WaitStates THEN Relock(p[t]) ELSE p[t]]

\* Condvar::notify_one: the function after waking thread t
Wake(p, t) == [p EXCEPT ![t] = Relock(p[t])]

\* mutant: the entry is inserted at the head (push_front)
PushBackAtFront(q, e) == <<e>> \o q

\* state.queue.push_back((index, card))
PushBack(q, e) == Append(q, e)

\* mutant: the entry returned is the newest (back)
PopHeadFromBack(q) == q[Len(q)]

\* state.queue.pop_front(): the entry returned and the entries left
PopHead(q) == Head(q)

\* mutant: pop empties the queue
PopRestDropsAll(q) == <<>>

\* mutant: the head is read (front) without being removed
PopRestKeepsHead(q) == q

PopRest(q) == Tail(q)

\* mutant: pop returns without notifying
PopNotifyNobody(p) == p

\* self.cond.notify_all() at the end of pop
PopNotify(p) == NotifyAll(p)

\* mutant: done sets the flag without notifying
DoneNotifyNobody(p) == p

\* self.cond.notify_all() in done
DoneNotify(p) == NotifyAll(p)

\* mutant: done flips the flag
DoneFlagToggled(d) == ~d

\* `state.done = true` in done
DoneFlag(d) == TRUE

\* no computation on the terminal size
NoScreen == [op |-> "none"]

\* ProgressBar::new: every slot Running(""), every count 0; recvd is the
\* number of LogMsgs try_recv has returned, warns the number of WARN lines
\* written
NewBar(n) ==
    [at |-> "new", res |-> "none", total |-> 0, recvd |-> 0, warns |-> 0,
     counts |-> [i \in 0..n |-> 0], status |-> [i \in 0..n |-> "Running"]]

\* no ProgressBar is spawned
NoBar == [NewBar(0) EXCEPT !.at = "unspawned"]

\* run_parallel_with_logs is not called; tx is the Sender<LogMsg> it
\* holds, i the handle its join loop is at
NoLogRun == [at |-> "source", res |-> "none", recvd |-> 0, i |-> 0, tx |-> FALSE]

\* the state of a run before its threads are spawned
InitRun ==
    /\ queue = <<>>
    /\ done = FALSE
    /\ pc = [t \in Threads |-> "unspawned"]
    /\ srcPos = 0
    /\ total = 0
    /\ pending = NoEntry
    /\ cur = [w \in Workers |-> NoEntry]
    /\ result = [t \in Threads |-> "none"]
    /\ handle = "none"
    /\ handles = <<>>
    /\ joined = FALSE
    /\ joinErr = NoThread
    /\ started = FALSE
    /\ pushed = <<>>
    /\ popped = <<>>
    /\ lateCur = {}
    /\ nones = {}
    /\ waited = FALSE
    /\ doneWoke = 0
    /\ nStart = [i \in Indices |-> 0]
    /\ nOk = [i \in Indices |-> 0]
    /\ nErr = [i \in Indices |-> 0]
    /\ readErrs = {}
    /\ totals = <<>>
    /\ finished = {}
    /\ nLayers = 0
    /\ canvas = <<>>
    /\ renderRes = "none"
    /\ outputs = <<>>
    /\ doneCalls = <<>>
    /\ batch = <<>>
    /\ decCreated = [w \in Workers |-> 0]
    /\ decUsed = {}
    /\ src = <<>>
    /\ collected = <<>>
    /\ stepsRun = <<>>
    /\ screen = NoScreen
    /\ events = <<>>
    /\ logs = <<>>
    /\ logMain = NoLogRun
    /\ bar = NoBar
    /\ lexTokens = {}
    /\ lexMax = 0
    /\ lexed = <<>>
    /\ token = [t |-> "none", v |-> ""]
    /\ symbol_stack = <<>>
    /\ state_stack = <<>>
    /\ parsed = [res |-> "none", v |-> [p |-> "none"]]

\* ---- data::Value and its PartialEq ---------------------------------------

\* the characters of the text of a Str
Chars == {"0", "1", "5", "-", "+", "a"}

RECURSIVE Texts(_)
Texts(n) ==
    IF n = 0 THEN {<<>>}
    ELSE LET shorter == Texts(n - 1) IN
         shorter \cup {Append(t, c) : t \in {u \in shorter : Len(u) = n - 1},
                                      c \in Chars}

\* enum Value, without Float
IntV(n) == [variant |-> "Int", int |-> n, str |-> <<>>, bool |-> FALSE]
StrV(t) == [variant |-> "Str", int |-> 0, str |-> t, bool |-> FALSE]
BoolV(b) == [variant |-> "Bool", int |-> 0, str |-> <<>>, bool |-> b]
NilV == [variant |-> "Nil", int |-> 0, str |-> <<>>, bool |-> FALSE]

Values ==
    {IntV(n) : n \in (0 - MaxInt)..MaxInt} \cup {StrV(t) : t \in Texts(MaxStrLen)}
        \cup {BoolV(b) : b \in BOOLEAN} \cup {NilV}

\* char::to_digit(10), -1 for None
to_digit(c) ==
    CASE c = "0" -> 0 [] c = "1" -> 1 [] c = "2" -> 2 [] c = "3" -> 3
      [] c = "4" -> 4 [] c = "5" -> 5 [] c = "6" -> 6 [] c = "7" -> 7
      [] c = "8" -> 8 [] c = "9" -> 9 [] OTHER -> -1

\* the digit loop of str::parse::<i64>: result * 10 + digit for a positive
\* and result * 10 - digit for a negative number, Err(InvalidDigit) at the
\* first character that is no digit
RECURSIVE parse_digits(_, _, _)
parse_digits(digits, sign, acc) ==
    IF digits = <<>> THEN [ok |-> TRUE, val |-> acc]
    ELSE IF to_digit(Head(digits)) < 0 THEN [ok |-> FALSE, val |-> 0]
    ELSE parse_digits(Tail(digits), sign, acc * 10 + sign * to_digit(Head(digits)))

\* str::parse::<i64>: Err for the empty text and for a lone sign, one
\* leading + or - taken as the sign
parse_i64(t) ==
    IF t = <<>> THEN [ok |-> FALSE, val |-> 0]
    ELSE IF Head(t) \in {"+", "-"}
    THEN IF Tail(t) = <<>> THEN [ok |-> FALSE, val |-> 0]
         ELSE parse_digits(Tail(t), IF Head(t) = "-" THEN -1 ELSE 1, 0)
    ELSE parse_digits(t, 1, 0)

\* str::parse::<bool>: "true" and "false" and nothing else
parse_bool(t) ==
    IF t = <<"t", "r", "u", "e">> THEN [ok |-> TRUE, val |-> TRUE]
    ELSE IF t = <<"f", "a", "l", "s", "e">> THEN [ok |-> TRUE, val |-> FALSE]
    ELSE [ok |-> FALSE, val |-> FALSE]

\* (Self::Str(a), Self::Int(b)) =>
\*     a.parse::<i64>().map(|a| a == *b).unwrap_or(false)
eq_str_int(a, b) == parse_i64(a).ok /\ parse_i64(a).val = b

\* mutant: the arm is missing and (_, _) => false is taken
eq_int_str_unmatched(a, b) == FALSE

\* (Self::Int(a), Self::Str(b)) =>
\*     b.parse::<i64>().map(|b| *a == b).unwrap_or(false)
eq_int_str(a, b) == parse_i64(b).ok /\ a = parse_i64(b).val

\* PartialEq::eq for Value
eq(self, other) ==
    CASE self.variant = "Int" /\ other.variant = "Int" -> self.int = other.int
      [] self.variant = "Str" /\ other.variant = "Str" -> self.str = other.str
      [] self.variant = "Str" /\ other.variant = "Int" ->
            eq_str_int(self.str, other.int)
      [] self.variant = "Str" /\ other.variant = "Bool" ->
            parse_bool(self.str).ok /\ parse_bool(self.str).val = other.bool
      [] self.variant = "Int" /\ other.variant = "Str" ->
            eq_int_str(self.int, other.str)
      [] self.variant = "Bool" /\ other.variant = "Str" ->
            parse_bool(other.str).ok /\ self.bool = parse_bool(other.str).val
      [] self.variant = "Bool" /\ other.variant = "Bool" -> self.bool = other.bool
      [] self.variant = "Nil" /\ other.variant = "Nil" -> TRUE
      [] OTHER -> FALSE

\* no comparison is made
InitNoValues ==
    /\ lhs = NilV
    /\ rhs = NilV
    /\ eqLR = <<>>
    /\ eqRL = <<>>

\* a run with options of NWorkers effective workers and any batch size
Init ==
    /\ reqWorkers = NWorkers
    /\ avail = NWorkers
    /\ nWorkers = NWorkers
    /\ capacity \in 1..MaxCap
    /\ srcLen = MaxCards
    /\ srcKinds = Kinds
    /\ InitRun
    /\ InitNoValues

\* ---- Pipeline::run_parallel ------------------------------------------------

\* the thread::spawn calls of run_parallel: the producer closure, then one
\* worker closure per id in 1..=nw
Spawn ==
    [t \in Threads |-> IF t = Producer THEN "p_open"
                       ELSE IF t <= nWorkers THEN "w_start" ELSE "unspawned"]

\* run_parallel: CardQueue::new(batch), `ImgBackend::new()?`, the spawns and
\* Ok(PipelineJoinHandle); a thread that is spawned but has not run yet
\* has done nothing another thread can see, so the spawns are one step
RunParallel ==
    /\ handle = "none"
    /\ \/ /\ handle' = "err"
          /\ UNCHANGED <<pc, handles>>
       \/ /\ handle' = "ok"
          /\ pc' = Spawn
          /\ handles' = [k \in 1..(nWorkers + 1) |-> k - 1]
    /\ UNCHANGED <<ivars, qvars, pvars, cur, result, joined, joinErr,
                   hvars, evars>>

\* ---- producer thread -------------------------------------------------------

\* mutant: on_start is not invoked
OnStartSkipped == started

\* visitor.on_start(template, 0): whether on_start was invoked, after it
OnStart == TRUE

\* template.source(source_key)? ; visitor.on_start(template, 0)
ProducerOpen ==
    /\ pc[Producer] = "p_open"
    /\ \/ /\ pc' = [pc EXCEPT ![Producer] = "ended"]
          /\ result' = [result EXCEPT ![Producer] = "err"]
          /\ UNCHANGED started
       \/ /\ pc' = [pc EXCEPT ![Producer] = "p_read"]
          /\ started' = OnStart
          /\ UNCHANGED result
    /\ UNCHANGED <<ivars, qvars, pvars, cur, jvars, hvars,
                   nStart, nOk, nErr, readErrs, totals, finished>>

\* source.read(filter)?
ProducerRead ==
    /\ pc[Producer] = "p_read"
    /\ \/ /\ pc' = [pc EXCEPT ![Producer] = "ended"]
          /\ result' = [result EXCEPT ![Producer] = "err"]
       \/ /\ pc' = [pc EXCEPT ![Producer] = "p_next"]
          /\ UNCHANGED result
    /\ UNCHANGED <<ivars, qvars, pvars, cur, jvars, hvars, evars>>

\* mutant: the read error ends the loop
AfterReadErrLeavesLoop == "done"

\* where the producer is after `Err(e) => visitor.on_read_err(template, i, e)`:
\* at the next turn of the loop
AfterReadErr == "p_next"

\* mutant: the items are numbered from 1
ItemIndexFromOne(n) == n + 1

\* the i that enumerate() gives the item it yields after n others
ItemIndex(n) == n

\* mutant: an Err item is reported but not counted
TotalAfterErrUncounted(n) == n

\* `total += 1` in the turn of an Err item
TotalAfterErr(n) == n + 1

\* one turn of `for (i, card) in cards_iter.enumerate()`: the iterator
\* ends or yields an item, the filter on on_read, total += 1, and the match
\* up to the call of push
ProducerNext ==
    /\ pc[Producer] = "p_next"
    /\ waited' = FALSE
    /\ \/ /\ pc' = [pc EXCEPT ![Producer] = "done"]
          /\ UNCHANGED <<pvars, readErrs>>
       \/ /\ srcPos < srcLen
          /\ srcPos' = srcPos + 1
          /\ \E item \in srcKinds :
                CASE item = "skip" ->
                      /\ UNCHANGED <<pc, total, pending, readErrs>>
                 [] item = "rerr" ->
                      /\ total' = TotalAfterErr(total)
                      /\ readErrs' = readErrs \cup {ItemIndex(total)}
                      /\ pc' = [pc EXCEPT ![Producer] = AfterReadErr]
                      /\ UNCHANGED pending
                 [] OTHER ->
                      /\ total' = total + 1
                      /\ pending' = [index |-> ItemIndex(total), card |-> item]
                      /\ pc' = [pc EXCEPT ![Producer] = "push"]
                      /\ UNCHANGED readErrs
    /\ UNCHANGED <<ivars, qvars, cur, result, jvars,
                   pushed, popped, lateCur, nones, doneWoke,
                   started, nStart, nOk, nErr, totals, finished>>

\* mutant: the bound is compared with > instead of >=
PushMustWaitOffByOne == Len(queue) > capacity

\* mutant: push inserts without waiting for room
PushNeverWaits == FALSE

\* the condition of wait_while in push
PushMustWait == Len(queue) >= capacity

\* mutant: push returns without notifying
PushNotifiedNobody == {}

\* self.cond.notify_one() in push: the threads of which it wakes one
PushNotified == Waiters

\* CardQueue::push with the mutex held, the producer being at `at`:
\* wait_while, then push_back, notify_one and the release of the guard on
\* return
PushAt(at) ==
    /\ pc[Producer] = at
    /\ IF PushMustWait
       THEN /\ pc' = [pc EXCEPT ![Producer] = "push_wait"]
            /\ waited' = TRUE
            /\ UNCHANGED <<queue, pending, pushed>>
       ELSE /\ queue' = PushBack(queue, pending)
            /\ pushed' = Append(pushed, pending)
            /\ pending' = NoEntry
            /\ IF PushNotified = {}
               THEN pc' = [pc EXCEPT ![Producer] = "p_next"]
               ELSE \E t \in PushNotified :
                        pc' = Wake([pc EXCEPT ![Producer] = "p_next"], t)
            /\ UNCHANGED waited
    /\ UNCHANGED <<ivars, done, srcPos, total, cur, result, jvars,
                   popped, lateCur, nones, doneWoke, evars>>

\* CardQueue::push as one step, from the lock to the return or the wait
Push == PushAt("push")

\* `queue.done()?; visitor.on_total(template, total); Ok(())`: CardQueue::done
\* sets the flag and notifies all; on_total and the return touch only the
\* producer's own events and result, which no other thread reads before
\* the producer has ended, so they are one step with done
DoneAt(at) ==
    /\ pc[Producer] = at
    /\ done' = DoneFlag(done)
    /\ doneWoke' = Cardinality({w \in Workers : pc[w] = "pop_wait"})
    /\ totals' = Append(totals, total)
    /\ result' = [result EXCEPT ![Producer] = "ok"]
    /\ pc' = DoneNotify([pc EXCEPT ![Producer] = "ended"])
    /\ UNCHANGED <<ivars, queue, pvars, cur, jvars,
                   pushed, popped, lateCur, nones, waited,
                   started, nStart, nOk, nErr, readErrs, finished>>

\* CardQueue::done as one step, from the lock to the return of the closure
Done == DoneAt("done")

\* ---- worker threads --------------------------------------------------------

\* mutant: the result is not reported
OnFinishSkipped(t) == finished

\* visitor.on_finish(template, t, &result): the ids reported after it
OnFinish(t) == finished \cup {t}

\* the read locks, the RenderContext and `template.decoder()?`; when the
\* decoder cannot be created, run returns the error and the closure calls
\* visitor.on_finish(template, id, &result) and ends
WorkerStart(w) ==
    /\ pc[w] = "w_start"
    /\ \/ /\ pc' = [pc EXCEPT ![w] = "pop"]
          /\ decCreated' = [decCreated EXCEPT ![w] = @ + 1]
          /\ UNCHANGED <<result, finished>>
       \/ /\ pc' = [pc EXCEPT ![w] = "ended"]
          /\ result' = [result EXCEPT ![w] = "err"]
          /\ finished' = OnFinish(w)
          /\ UNCHANGED decCreated
    /\ UNCHANGED <<svars, decUsed, lvars, qvars, pvars, cur, jvars, hvars,
                   started, nStart, nOk, nErr, readErrs, totals>>

\* mutant: the worker goes to process without on_iter_start
IterStartSkipped(i) == nStart

\* visitor.on_iter_start(template, id, i, &card): the calls per index after
\* the one for index i
IterStart(i) == [nStart EXCEPT ![i] = @ + 1]

\* mutant: the negation of done is missing
PopMustWaitDone == queue = <<>> /\ done

\* the condition of wait_while in pop
PopMustWait == queue = <<>> /\ ~done

\* CardQueue::pop: wait_while, then pop_front, notify_all and the release
\* of the guard on return; the caller's `while let Some(..) = pop()?`
\* decides where the worker goes next.  On None run returns Ok(()) and the
\* closure calls visitor.on_finish(template, id, &result) and ends: None
\* comes only from a queue that is empty and done, which no later step of
\* any thread changes, so these statements are one step with pop.  On
\* Some((i, card)) the worker calls on_iter_start, which no other thread
\* observes before the outcome of the card, in the same step.
PopAt(w, at) ==
    /\ pc[w] = at
    /\ IF PopMustWait
       THEN /\ pc' = [pc EXCEPT ![w] = "pop_wait"]
            /\ UNCHANGED <<queue, cur, result, popped, lateCur, nones,
                           finished, nStart>>
       ELSE IF queue = <<>>
            THEN /\ pc' = PopNotify([pc EXCEPT ![w] = "ended"])
                 /\ result' = [result EXCEPT ![w] = "ok"]
                 /\ nones' = nones \cup {w}
                 /\ finished' = OnFinish(w)
                 /\ UNCHANGED <<queue, cur, popped, lateCur, nStart>>
            ELSE /\ queue' = PopRest(queue)
                 /\ cur' = [cur EXCEPT ![w] = PopHead(queue)]
                 /\ popped' = Append(popped, PopHead(queue))
                 /\ lateCur' = (IF done THEN lateCur \cup {w} ELSE lateCur)
                 /\ nStart' = IterStart(PopHead(queue).index)
                 /\ pc' = PopNotify([pc EXCEPT ![w] = "process"])
                 /\ UNCHANGED <<result, nones, finished>>
    /\ UNCHANGED <<ivars, done, pvars, jvars, pushed, waited, doneWoke,
                   started, nOk, nErr, readErrs, totals>>

\* CardQueue::pop as one step, from the lock to the return or the wait
Pop(w) == PopAt(w, "pop")

\* mutant: every worker decodes with the decoder of worker 1
DecoderOfFirst(w) == 1

\* `&decoder` in run: the local of the run of worker w, which holds the
\* decoder that run created
DecoderOf(w) == w

\* Worker::process and the match on its result; the decode, render and
\* output of a card that does not succeed return an Err or panic, and a
\* panic unwinds the closure: the thread ends without on_finish; `used`
\* is the record of the decodes after this one
ProcessWith(w, used) ==
    /\ pc[w] = "process"
    /\ \/ /\ IF cur[w].card = "ok"
             THEN /\ nOk' = [nOk EXCEPT ![cur[w].index] = @ + 1]
                  /\ UNCHANGED nErr
             ELSE /\ nErr' = [nErr EXCEPT ![cur[w].index] = @ + 1]
                  /\ UNCHANGED nOk
          /\ pc' = [pc EXCEPT ![w] = "pop"]
          /\ UNCHANGED result
       \/ /\ cur[w].card = "bad"
          /\ pc' = [pc EXCEPT ![w] = "ended"]
          /\ result' = [result EXCEPT ![w] = "panic"]
          /\ UNCHANGED <<nOk, nErr>>
    /\ cur' = [cur EXCEPT ![w] = NoEntry]
    /\ lateCur' = lateCur \ {w}
    /\ decUsed' = used
    /\ UNCHANGED <<svars, decCreated, lvars, qvars, pvars, jvars,
                   pushed, popped, nones, waited, doneWoke,
                   started, nStart, readErrs, totals, finished>>

\* one iteration of the loop of run after the pop, its decode not recorded
Process(w) == ProcessWith(w, decUsed)

\* the same iteration, with `decoder.decode(card)` of process recorded
ProcessDecode(w) == ProcessWith(w, decUsed \cup {<<w, DecoderOf(w)>>})

\* a wait on the condition variable may end without a notification
Spurious(t) ==
    /\ pc[t] \in WaitStates
    /\ pc' = Wake(pc, t)
    /\ UNCHANGED <<ivars, qvars, pvars, cur, result, jvars, hvars, evars>>

\* mutant: a closure keeps its clone after its thread has ended
ArcClonesKept == {t \in 0..nWorkers : pc[t] # "unspawned"}

\* the threads whose closure owns a clone of the Arc of the template:
\* `template.clone()` is moved into the closure at the spawn and dropped
\* when the closure returns or unwinds
ArcClones == {t \in 0..nWorkers : pc[t] \notin {"unspawned", "ended"}}

\* Arc::strong_count of the template: the Arc of the join handle and the
\* clones
ArcStrongCount == 1 + Cardinality(ArcClones)

\* ---- PipelineJoinHandle::join ---------------------------------------------

\* the handle on which join is waiting: handles are joined in the order
\* producer, worker 1, .., worker n, and a handle.join() returns once its
\* thread has ended
JoinWaitsFor ==
    IF \A t \in 0..nWorkers : pc[t] = "ended"
    THEN NWorkers + 1
    ELSE CHOOSE t \in 0..nWorkers :
            /\ pc[t] # "ended"
            /\ \A u \in 0..nWorkers : u < t => pc[u] = "ended"

\* the first handle in handle order whose thread panicked
FirstPanicked ==
    IF \A t \in Threads : result[t] # "panic"
    THEN NWorkers + 1
    ELSE CHOOSE t \in Threads :
            /\ result[t] = "panic"
            /\ \A u \in Threads : u < t => result[u] # "panic"

\* mutant: the Err a worker returned is propagated like a panic
\* (`handle.join()??`)
JoinErrOfReturnedErr(p) ==
    IF p = NoThread /\ (\E w \in Workers : result[w] = "err")
    THEN CHOOSE w \in Workers :
            /\ result[w] = "err"
            /\ \A v \in Workers : v < w => result[v] # "err"
    ELSE p

\* what `handle.join().map_err(|_| Error::thread_join(i))?` makes of the
\* threads joined so far: p is the first panicked thread, NoThread if none;
\* the Result a thread returned is not looked at
JoinErrOf(p) == p

\* the joins in handle order; at the first handle whose thread panicked
\* join returns Err(ThreadJoin{i}); else, after the last handle,
\* Arc::into_inner, visitor.on_finish(&template, 0, &base_result), Ok(..)
JoinReturn ==
    /\ handle = "ok"
    /\ ~joined
    /\ IF FirstPanicked < JoinWaitsFor
       THEN /\ joinErr' = FirstPanicked
            /\ UNCHANGED finished
       ELSE /\ JoinWaitsFor = NWorkers + 1
            /\ joinErr' = JoinErrOf(NoThread)
            /\ finished' = OnFinish(Producer)
    /\ joined' = TRUE
    /\ UNCHANGED <<ivars, qvars, pc, pvars, cur, result, handle, handles,
                   hvars, started, nStart, nOk, nErr, readErrs, totals>>

ProducerStep ==
    \/ ProducerOpen \/ ProducerRead \/ ProducerNext
    \/ Push \/ Done

WorkerStep(w) ==
    \/ WorkerStart(w) \/ Pop(w)
    \/ Process(w)

Next ==
    \/ RunParallel
    \/ ProducerStep
    \/ \E w \in Workers : WorkerStep(w)
    \/ \E t \in Threads : Spurious(t)
    \/ JoinReturn

Spec == Init /\ [][Next]_vars

\* Scheduling: the threads are OS threads, each of them runs as long as it
\* can take a step.  A spurious wake-up is never owed.
Fairness ==
    /\ WF_vars(ProducerStep)
    /\ \A w \in Workers : WF_vars(WorkerStep(w))
    /\ WF_vars(JoinReturn)

FairSpec == Spec /\ Fairness

\* a run whose source yields cards only: every item read is pushed
InitWake ==
    /\ reqWorkers = NWorkers
    /\ avail = NWorkers
    /\ nWorkers = NWorkers
    /\ capacity \in 1..MaxCap
    /\ srcLen = MaxCards
    /\ srcKinds = Cards
    /\ InitRun
    /\ InitNoValues

WakeSpec == InitWake /\ [][Next]_vars /\ Fairness

\* ---- the decoders of a run ----------------------------------------------------

\* the run, with every decode recorded
NextDecoder ==
    \/ RunParallel
    \/ ProducerStep
    \/ \E w \in Workers :
          WorkerStart(w) \/ Pop(w) \/ ProcessDecode(w)
    \/ \E t \in Threads : Spurious(t)
    \/ JoinReturn

DecoderSpec == Init /\ [][NextDecoder]_vars

\* ---- the locks: the queue mutex step by step -------------------------------

\* where a thread is between `self.queue.lock()` returning the guard and
\* the guard being dropped or handed to wait_while
LockedStates == {"push_locked", "pop_locked", "done_locked"}

Locked(s) ==
    CASE s = "push" -> "push_locked"
      [] s = "pop" -> "pop_locked"
      [] s = "done" -> "done_locked"

\* mutant: the guard returned by the lock in pop lives until the card is
\* processed
HoldsMutexWhileProcessing(s) == s \in LockedStates \cup {"process"}

\* a thread at s holds the MutexGuard of CardQueue.queue: the guard is a
\* local of push, pop and done
HoldsMutex(s) == s \in LockedStates

MutexHolders == {t \in Threads : HoldsMutex(pc[t])}

\* the RwLock guards a thread holds: the producer closure and the worker
\* closures take `template.read()`, the worker closures `img_backend.read()`
\* too, at their start, and keep them to their end; no closure takes a
\* write guard
ReadGuards(t) ==
    IF pc[t] \in {"unspawned", "p_open", "w_start", "ended"} THEN {}
    ELSE IF t = Producer THEN {"template"}
    ELSE {"template", "image backend"}

WriteGuards(t) == {}

\* `self.queue.lock()` in push, pop and done: the mutex is free
Lock(t) ==
    /\ pc[t] \in {"push", "pop", "done"}
    /\ MutexHolders = {}
    /\ pc' = [pc EXCEPT ![t] = Locked(pc[t])]
    /\ UNCHANGED <<ivars, qvars, pvars, cur, result, jvars, hvars, evars>>

NextLock ==
    \/ RunParallel
    \/ ProducerOpen \/ ProducerRead \/ ProducerNext
    \/ \E t \in Threads : Lock(t)
    \/ PushAt("push_locked") \/ DoneAt("done_locked")
    \/ \E w \in Workers :
          WorkerStart(w) \/ PopAt(w, "pop_locked") \/ Process(w)
    \/ \E t \in Threads : Spurious(t)
    \/ JoinReturn

\* a run with one card more in the source than there are workers
InitLock ==
    /\ reqWorkers = NWorkers
    /\ avail = NWorkers
    /\ nWorkers = NWorkers
    /\ capacity \in 1..MaxCap
    /\ srcLen = NWorkers + 1
    /\ srcKinds = Cards
    /\ InitRun
    /\ InitNoValues

LockSpec == InitLock /\ [][NextLock]_vars

\* a run of NWorkers workers on a queue of capacity BufCap, with a source
\* of more cards than the queue, the workers and the producer can hold
InitBuf ==
    /\ reqWorkers = NWorkers
    /\ avail = NWorkers
    /\ nWorkers = NWorkers
    /\ capacity = BufCap
    /\ srcLen = BufCards
    /\ srcKinds = Cards
    /\ InitRun
    /\ InitNoValues

BufSpec == InitBuf /\ [][Next]_vars

\* ---- ParallelismOptions and the spawn loop of run_parallel -----------------

Unknown == 0

\* thread::available_parallelism().unwrap_or_else(|_| NonZero::new(1).unwrap())
av_workers(a) == IF a = Unknown THEN 1 ELSE a

\* mutant: the requested count is taken as it is
check_n_workers_as_requested(n, a) == n

\* ParallelismOptions::check_n_workers: n_workers.min(av_workers).get()
check_n_workers(n, a) == IF n <= av_workers(a) THEN n ELSE av_workers(a)

\* `batch_size: n_workers * 2` in ParallelismOptions::new
default_batch_size(n) == n * 2

\* Option<NonZero<usize>>: None, or Some(b) as b
NoBatch == 0

\* mutant: the batch size passed is dropped
set_batch_size_ignored(size, b) == size

\* ParallelismOptions::set_batch_size, as the batch_size it leaves
set_batch_size(size, b) == IF b # NoBatch THEN b ELSE size

\* the part of the state the options and the spawn loop leave alone
runvars == <<qvars, pc, pvars, cur, result, joined, joinErr, hvars, evars,
             lvars>>

\* ParallelismOptions::new
OptionsNew ==
    /\ nWorkers = 0
    /\ nWorkers' = check_n_workers(reqWorkers, avail)
    /\ capacity' = default_batch_size(check_n_workers(reqWorkers, avail))
    /\ UNCHANGED <<reqWorkers, avail, srcLen, srcKinds, cvars, doneCalls, batch,
                   dvars, xvars, handle, handles, runvars>>

\* run_parallel up to the first spawn: CardQueue::new(batch),
\* `ImgBackend::new()?`, the spawn of the producer and workers.push(handle)
RunSetup ==
    /\ nWorkers > 0
    /\ handle = "none"
    /\ handles = <<>>
    /\ \/ /\ handle' = "err"
          /\ UNCHANGED handles
       \/ /\ handles' = <<Producer>>
          /\ UNCHANGED handle
    /\ UNCHANGED <<ovars, runvars>>

\* one turn of `for id in 1..=nw`: the spawn of worker id and
\* workers.push(handle)
RunSpawnWorker ==
    /\ handle = "none"
    /\ Len(handles) >= 1
    /\ Len(handles) <= nWorkers
    /\ handles' = Append(handles, Len(handles))
    /\ UNCHANGED <<ovars, handle, runvars>>

\* the end of the loop and Ok(PipelineJoinHandle::new(template, visitor, workers))
RunReturn ==
    /\ handle = "none"
    /\ Len(handles) > nWorkers
    /\ handle' = "ok"
    /\ UNCHANGED <<ovars, handles, runvars>>

InitOptions ==
    /\ reqWorkers \in 1..MaxRequested
    /\ avail \in {Unknown} \cup 1..MaxAvailable
    /\ nWorkers = 0
    /\ capacity = 0
    /\ srcLen = MaxCards
    /\ srcKinds = Kinds
    /\ InitRun
    /\ InitNoValues

NextOptions == OptionsNew \/ RunSetup \/ RunSpawnWorker \/ RunReturn

OptionsSpec == InitOptions /\ [][NextOptions]_vars

\* ---- the batch size, from the options to the queue of the run ----------------

\* set_batch_size(b), and with_batch_size(b), which calls it and returns
\* the options
OptionsSetBatchSize ==
    /\ nWorkers > 0
    /\ handle = "none"
    /\ Len(batch) < MaxBatchCalls
    /\ \E b \in {NoBatch} \cup 1..MaxBatch :
          /\ capacity' = set_batch_size(capacity, b)
          /\ batch' = Append(batch, b)
    /\ UNCHANGED <<reqWorkers, avail, nWorkers, srcLen, srcKinds, cvars,
                   doneCalls, dvars, xvars, handle, handles, runvars>>

\* the options are built on a machine of up to NWorkers threads and the
\* source of the run has one card, which is processed without an error
InitBatch ==
    /\ reqWorkers \in 1..MaxRequested
    /\ avail \in {Unknown} \cup 1..NWorkers
    /\ nWorkers = 0
    /\ capacity = 0
    /\ srcLen = 1
    /\ srcKinds = {"ok"}
    /\ InitRun
    /\ InitNoValues

\* ParallelismOptions::new, the calls of set_batch_size, then
\* run_parallel(.., opt) and the run
NextBatch ==
    \/ OptionsNew
    \/ OptionsSetBatchSize
    \/ /\ nWorkers > 0
       /\ Next

BatchSpec == InitBatch /\ [][NextBatch]_vars

\* ---- the screen arithmetic of logs.rs ------------------------------------------

\* a u16 that went below zero, as the wrapping subtraction leaves it
Wrap16(x) == (x + 65536) % 65536

\* a - b on u16: the difference, or below zero a panic (overflow checks
\* on) or the wrapped value (overflow checks off), depending on the build
Sub16(a, b) ==
    IF a.st = "panic" THEN {a}
    ELSE IF a.v >= b THEN {[st |-> a.st, v |-> a.v - b]}
    ELSE {[st |-> "panic", v |-> 0], [st |-> "wrapped", v |-> Wrap16(a.v - b)]}

\* a value read, not computed
U16(x) == [st |-> "ok", v |-> x]

\* the differences of a set of values
Sub16All(as, b) == UNION {Sub16(a, b) : a \in as}

\* show: `let y = h - self.n_workers as u16 - 1;`
show_y(h, n) == Sub16All(Sub16(U16(h), n), 1)

\* log_message: `let y = h - self.n_workers as u16 - (2 + nl);`
log_message_y(h, n, nl) == Sub16All(Sub16(U16(h), n), 2 + nl)

\* ellipsize: `let w = w - used;`
ellipsize_w(w, used) == Sub16(U16(w), used)

\* the `used` of the calls of ellipsize in show_worker and show_base
UsedWidths == {18, 27}

\* what the screen arithmetic leaves alone
scrvars == <<reqWorkers, avail, nWorkers, capacity, srcLen, srcKinds, cvars,
             doneCalls, batch, dvars, src, collected, stepsRun, handle,
             handles, runvars, gvars, prsvars>>

\* ProgressBar::show on a terminal of h rows, with n workers
Show ==
    /\ screen = NoScreen
    /\ \E h \in 0..MaxTermH, n \in 0..NWorkers :
          \E y \in show_y(h, n) :
             screen' = [op |-> "show", a |-> h, n |-> n, nl |-> 0, res |-> y]
    /\ UNCHANGED scrvars

\* ProgressBar::log_message of a message of nl newlines
LogMessage ==
    /\ screen = NoScreen
    /\ \E h \in 0..MaxTermH, n \in 0..NWorkers, nl \in 0..MaxNewlines :
          \E y \in log_message_y(h, n, nl) :
             screen' = [op |-> "log_message", a |-> h, n |-> n, nl |-> nl,
                        res |-> y]
    /\ UNCHANGED scrvars

\* ProgressBar::ellipsize on a terminal of w columns
Ellipsize ==
    /\ screen = NoScreen
    /\ \E w \in 0..MaxTermW, used \in UsedWidths :
          \E r \in ellipsize_w(w, used) :
             screen' = [op |-> "ellipsize", a |-> w, n |-> used, nl |-> 0,
                        res |-> r]
    /\ UNCHANGED scrvars

\* ---- comparisons of Values --------------------------------------------------

\* what a comparison leaves alone
novars == <<reqWorkers, avail, nWorkers, capacity, srcLen, srcKinds, handle,
            handles, runvars, doneCalls, batch, dvars, xvars>>

\* lhs == rhs
EvalLR ==
    /\ eqLR = <<>>
    /\ eqLR' = <<eq(lhs, rhs)>>
    /\ UNCHANGED <<lhs, rhs, eqRL, novars>>

\* rhs == lhs
EvalRL ==
    /\ eqRL = <<>>
    /\ eqRL' = <<eq(rhs, lhs)>>
    /\ UNCHANGED <<lhs, rhs, eqLR, novars>>

InitValues ==
    /\ reqWorkers = 1
    /\ avail = 1
    /\ nWorkers = 0
    /\ capacity = 0
    /\ srcLen = 0
    /\ srcKinds = {}
    /\ InitRun
    /\ lhs \in Values
    /\ rhs \in Values
    /\ eqLR = <<>>
    /\ eqRL = <<>>

NextValues == EvalLR \/ EvalRL

ValueSpec == InitValues /\ [][NextValues]_vars

\* ---- the sequential run: Pipeline::run, process, LayerStack::render --------

\* the thread that calls Pipeline::run reports with worker id 0; its
\* position is pc[Main], its Result result[Main]
Main == 0

\* the part of the state a sequential run leaves alone
parvars == <<ovars, qvars, cur, jvars, hvars, totals>>

\* an iteration ends with on_iter_ok or on_iter_err for `card` of `pending`
IterOutcome(ok) ==
    /\ IF ok
       THEN /\ nOk' = [nOk EXCEPT ![pending.index] = @ + 1]
            /\ UNCHANGED nErr
       ELSE /\ nErr' = [nErr EXCEPT ![pending.index] = @ + 1]
            /\ UNCHANGED nOk
    /\ pending' = NoEntry
    /\ pc' = [pc EXCEPT ![Main] = "s_next"]

\* run_internal up to the iterator: on_start(0), `template.source(key)?`,
\* `template.decoder()?`, `ImgBackend::new()?`, `source.read(filter)?`
SeqOpen ==
    /\ pc[Main] = "unspawned"
    /\ started' = OnStart
    /\ \/ /\ result' = [result EXCEPT ![Main] = "err"]
          /\ pc' = [pc EXCEPT ![Main] = "s_finish"]
       \/ /\ pc' = [pc EXCEPT ![Main] = "s_next"]
          /\ UNCHANGED result
    /\ UNCHANGED <<parvars, pvars, lvars, nStart, nOk, nErr, readErrs, finished>>

\* one item of `.filter(on_read).enumerate().filter_map(..)`, up to
\* on_iter_start(0, i, &card) of for_each, or the end of the iterator and
\* Ok(())
SeqNext ==
    /\ pc[Main] = "s_next"
    /\ \/ /\ result' = [result EXCEPT ![Main] = "ok"]
          /\ pc' = [pc EXCEPT ![Main] = "s_finish"]
          /\ UNCHANGED <<pvars, readErrs, nStart>>
       \/ /\ srcPos < srcLen
          /\ srcPos' = srcPos + 1
          /\ UNCHANGED result
          /\ \E item \in srcKinds :
                CASE item = "skip" ->
                      /\ UNCHANGED <<pc, total, pending, readErrs, nStart>>
                 [] item = "rerr" ->
                      /\ total' = total + 1
                      /\ readErrs' = readErrs \cup {ItemIndex(total)}
                      /\ UNCHANGED <<pc, pending, nStart>>
                 [] OTHER ->
                      /\ total' = total + 1
                      /\ pending' = [index |-> ItemIndex(total), card |-> item]
                      /\ nStart' = IterStart(ItemIndex(total))
                      /\ pc' = [pc EXCEPT ![Main] = "decode"]
                      /\ UNCHANGED readErrs
    /\ UNCHANGED <<parvars, lvars, started, nOk, nErr, finished>>

\* process: `decoder.decode(card)?`; a card whose processing succeeds
\* passes every step, a card whose processing fails fails at one of them
ProcDecode ==
    /\ pc[Main] = "decode"
    /\ renderRes' = "none"
    /\ \/ /\ \E n \in 0..MaxLayers : nLayers' = n
          /\ pc' = [pc EXCEPT ![Main] = "canvas"]
          /\ UNCHANGED <<pending, nOk, nErr>>
       \/ /\ pending.card = "bad"
          /\ IterOutcome(FALSE)
          /\ UNCHANGED nLayers
    /\ UNCHANGED <<parvars, srcPos, total, result, canvas, outputs,
                   started, nStart, readErrs, finished>>

\* mutant: the surface of the card before is drawn on again
NewCanvasKeepsOld(c) == c

\* ImageSurface::create(..): a surface with nothing rendered on it
NewCanvas(c) == <<>>

\* LayerStack::render up to the loop: `ImageSurface::create(..)?`,
\* `Context::new(&img)?`, set_source_rgba and `cr.paint()?`
RenderCanvas ==
    /\ pc[Main] = "canvas"
    /\ \/ /\ canvas' = NewCanvas(canvas)
          /\ pc' = [pc EXCEPT ![Main] = "layer"]
          /\ UNCHANGED <<renderRes, pending, nOk, nErr>>
       \/ /\ pending.card = "bad"
          /\ renderRes' = "err"
          /\ IterOutcome(FALSE)
          /\ UNCHANGED canvas
    /\ UNCHANGED <<parvars, srcPos, total, result, nLayers, outputs,
                   started, nStart, readErrs, finished>>

\* one turn of `for layer in layers.into_iter() { layer.render(..)?; }`,
\* or the end of the loop and Ok(img)
RenderLayer ==
    /\ pc[Main] = "layer"
    /\ IF Len(canvas) < nLayers
       THEN \/ /\ canvas' = Append(canvas, Len(canvas) + 1)
               /\ UNCHANGED <<pc, renderRes, pending, nOk, nErr>>
            \/ /\ pending.card = "bad"
               /\ renderRes' = "err"
               /\ IterOutcome(FALSE)
               /\ UNCHANGED canvas
       ELSE /\ renderRes' = "ok"
            /\ pc' = [pc EXCEPT ![Main] = "output"]
            /\ UNCHANGED <<canvas, pending, nOk, nErr>>
    /\ UNCHANGED <<parvars, srcPos, total, result, nLayers, outputs,
                   started, nStart, readErrs, finished>>

\* mutant: the result of process is not looked at
OutcomeAlwaysOk(ok) == TRUE

\* the match on the result of process: Ok(()) => on_iter_ok, Err(e) =>
\* on_iter_err
Outcome(ok) == ok

\* `template.output(card, &img, &ctx.backend)?; Ok(())` and the match
ProcOutput ==
    /\ pc[Main] = "output"
    /\ LET ok == pending.card = "ok" IN
         /\ outputs' = Append(outputs, [index |-> pending.index, ok |-> ok])
         /\ IterOutcome(Outcome(ok))
    /\ UNCHANGED <<parvars, srcPos, total, result, nLayers, canvas, renderRes,
                   started, nStart, readErrs, finished>>

\* Pipeline::run: visitor.on_finish(&template, 0, &result)
SeqFinish ==
    /\ pc[Main] = "s_finish"
    /\ finished' = OnFinish(Main)
    /\ pc' = [pc EXCEPT ![Main] = "ended"]
    /\ UNCHANGED <<parvars, pvars, result, lvars,
                   started, nStart, nOk, nErr, readErrs>>

\* decode, render or output panics: the panic unwinds process, run_internal
\* and run, and on_finish is not reached
SeqPanic ==
    /\ pc[Main] \in {"decode", "canvas", "layer", "output"}
    /\ pending.card = "bad"
    /\ pc' = [pc EXCEPT ![Main] = "ended"]
    /\ result' = [result EXCEPT ![Main] = "panic"]
    /\ UNCHANGED <<parvars, pvars, lvars,
                   started, nStart, nOk, nErr, readErrs, finished>>

InitSeq ==
    /\ reqWorkers = 1
    /\ avail = 1
    /\ nWorkers = 0
    /\ capacity = 0
    /\ srcLen = MaxCards
    /\ srcKinds = Kinds
    /\ InitRun
    /\ InitNoValues

NextSeq ==
    \/ SeqOpen \/ SeqNext \/ ProcDecode \/ RenderCanvas
    \/ RenderLayer \/ ProcOutput \/ SeqFinish
    \/ SeqPanic

SeqSpec == InitSeq /\ [][NextSeq]_vars

\* a parallel run of any number of workers from one on
InitOrder ==
    /\ nWorkers \in 1..NWorkers
    /\ reqWorkers = nWorkers
    /\ avail = nWorkers
    /\ capacity \in 1..MaxCap
    /\ srcLen = MaxCards
    /\ srcKinds = Kinds
    /\ InitRun
    /\ InitNoValues

OrderSpec == InitOrder /\ [][Next]_vars

\* ---- a CardQueue used on its own ----------------------------------------------

\* what the calls on the queue leave alone
quvars == <<reqWorkers, avail, nWorkers, capacity, srcLen, srcKinds, cvars,
            lvars, pc, srcPos, pending, cur, result, jvars, lateCur, waited,
            doneWoke, evars, batch, dvars, xvars>>

\* push(total, card) by a caller that finds room: a call that has to wait
\* does not return before another call has made room
QueuePush ==
    /\ ~PushMustWait
    /\ total < srcLen
    /\ \E card \in srcKinds :
          /\ queue' = PushBack(queue, [index |-> total, card |-> card])
          /\ pushed' = Append(pushed, [index |-> total, card |-> card])
    /\ total' = total + 1
    /\ UNCHANGED <<done, popped, nones, doneCalls, quvars>>

\* pop() by caller w that need not wait: Some(front) or, on the empty
\* queue with done set, None
QueuePop(w) ==
    /\ ~PopMustWait
    /\ IF queue = <<>>
       THEN /\ nones' = nones \cup {w}
            /\ UNCHANGED <<queue, popped>>
       ELSE /\ queue' = PopRest(queue)
            /\ popped' = Append(popped, PopHead(queue))
            /\ UNCHANGED nones
    /\ UNCHANGED <<done, total, pushed, doneCalls, quvars>>

\* done()
QueueDone ==
    /\ Len(doneCalls) < MaxDoneCalls
    /\ done' = DoneFlag(done)
    /\ doneCalls' = Append(doneCalls, Len(pushed) + Len(popped))
    /\ UNCHANGED <<queue, total, pushed, popped, nones, quvars>>

InitQueue ==
    /\ reqWorkers = NWorkers
    /\ avail = NWorkers
    /\ nWorkers = NWorkers
    /\ capacity \in 1..MaxCap
    /\ srcLen = NWorkers + 1
    /\ srcKinds = Cards
    /\ InitRun
    /\ InitNoValues

NextQueue == QueuePush \/ (\E w \in Workers : QueuePop(w)) \/ QueueDone

QueueSpec == InitQueue /\ [][NextQueue]_vars

\* ---- a run of either kind ---------------------------------------------------

\* Pipeline::run or Pipeline::run_parallel(..).join() on the same pipeline
\* and source: the caller takes one of the two (cli.rs picks by the number
\* of workers)
NextEither ==
    \/ /\ handle # "none" \/ pc[Main] = "unspawned"
       /\ Next
    \/ /\ handle = "none"
       /\ NextSeq

EitherSpec == Init /\ [][NextEither]_vars

\* ---- the two kinds of run on a given source ----------------------------------

\* the source: what `source.read(filter)?` yields, item by item
GivenSource ==
    /\ src = <<>>
    /\ handle = "none"
    /\ pc[Main] = "unspawned"
    /\ src' \in [1..srcLen -> Kinds]
    /\ UNCHANGED <<reqWorkers, avail, nWorkers, capacity, srcLen, srcKinds,
                   cvars, doneCalls, batch, dvars, handle, handles, runvars,
                   collected, stepsRun, screen, gvars, prsvars>>

\* the iterator yields the items of src in their order and ends after the
\* last: the item of a turn is seen in what the turn does with it
ReadsGivenSource ==
    /\ srcPos' # srcPos =>
          CASE src[srcPos'] = "skip" -> total' = total
            [] src[srcPos'] = "rerr" -> readErrs' # readErrs
            [] OTHER -> pending' # pending /\ pending'.card = src[srcPos']
    /\ pc[Producer] = "p_next" /\ pc'[Producer] = "done" => srcPos = srcLen
    /\ handle = "none" /\ pc[Main] = "s_next" /\ pc'[Main] = "s_finish" =>
          srcPos = srcLen

\* a parallel run of any number of workers and any capacity, or a
\* sequential run
InitEquiv == InitOrder

NextEquiv ==
    \/ GivenSource
    \/ /\ src # <<>>
       /\ NextEither
       /\ ReadsGivenSource

EquivSpec == InitEquiv /\ [][NextEquiv]_vars

\* ---- the collecting Pipeline::run of pipeline.rs ------------------------------

\* the steps on a card, in the order of the closure of map
Steps == <<"decode", "render", "output">>

\* unwrapc!(card_res): Err((None, error))
ErrNone == [res |-> "Err", card |-> "none", at |-> "read", ran |-> <<>>]

\* mutant: the card is not handed back with the error
ErrWithoutCard(card, ran) ==
    [res |-> "Err", card |-> "none", at |-> ran[Len(ran)], ran |-> ran]

\* unwrapc!(..; with (card)): Err((Some(card), error)), for the step that
\* failed after the steps of ran were called
ErrWith(card, ran) ==
    [res |-> "Err", card |-> card, at |-> ran[Len(ran)], ran |-> ran]

\* Ok(card), after the steps of ran
OkWith(card, ran) == [res |-> "Ok", card |-> card, at |-> "none", ran |-> ran]

\* what the collecting run leaves alone
colvars == <<reqWorkers, avail, nWorkers, capacity, srcLen, srcKinds, cvars,
             doneCalls, batch, dvars, src, screen, gvars, prsvars, qvars, cur, jvars, hvars, evars,
             lvars, total>>

\* run up to the iterator: `template.source(key)?`, `template.decoder()?`,
\* `ImgBackend::new()?`, `source.read(filter)?`
CollectOpen ==
    /\ src # <<>>
    /\ pc[Main] = "unspawned"
    /\ \/ /\ result' = [result EXCEPT ![Main] = "err"]
          /\ pc' = [pc EXCEPT ![Main] = "ended"]
       \/ /\ pc' = [pc EXCEPT ![Main] = "c_next"]
          /\ UNCHANGED result
    /\ UNCHANGED <<colvars, srcPos, pending, collected, stepsRun>>

\* collect() takes the next item of the map, or ends with Ok(res); an item
\* the filter of read rejects is not yielded
CollectNext ==
    /\ pc[Main] = "c_next"
    /\ stepsRun' = <<>>
    /\ IF srcPos = Len(src)
       THEN /\ result' = [result EXCEPT ![Main] = "ok"]
            /\ pc' = [pc EXCEPT ![Main] = "ended"]
            /\ UNCHANGED <<srcPos, pending, collected>>
       ELSE /\ srcPos' = srcPos + 1
            /\ UNCHANGED result
            /\ CASE src[srcPos + 1] = "skip" ->
                      UNCHANGED <<pc, pending, collected>>
                 [] src[srcPos + 1] = "rerr" ->
                      /\ collected' = Append(collected, ErrNone)
                      /\ UNCHANGED <<pc, pending>>
                 [] OTHER ->
                      /\ pending' = [index |-> Len(collected),
                                     card |-> src[srcPos + 1]]
                      /\ pc' = [pc EXCEPT ![Main] = "c_step"]
                      /\ UNCHANGED collected
    /\ UNCHANGED colvars

\* the next of decoder.decode(&card), layers.render(&ctx) and
\* template.output(..) under unwrapc!: it returns Ok, and after output the
\* closure returns Ok(card), or it returns Err and the closure returns
\* Err((Some(card), error)); a card whose processing fails fails at one of
\* the steps, or the step panics
CollectStep ==
    /\ pc[Main] = "c_step"
    /\ LET ran == Append(stepsRun, Steps[Len(stepsRun) + 1]) IN
         \/ /\ Len(ran) < Len(Steps) \/ pending.card = "ok"
            /\ IF Len(ran) = Len(Steps)
               THEN /\ collected' = Append(collected, OkWith(pending.card, ran))
                    /\ pc' = [pc EXCEPT ![Main] = "c_next"]
                    /\ pending' = NoEntry
               ELSE UNCHANGED <<collected, pc, pending>>
            /\ stepsRun' = ran
            /\ UNCHANGED result
         \/ /\ pending.card = "bad"
            /\ collected' = Append(collected, ErrWith(pending.card, ran))
            /\ pc' = [pc EXCEPT ![Main] = "c_next"]
            /\ pending' = NoEntry
            /\ stepsRun' = ran
            /\ UNCHANGED result
         \/ /\ pending.card = "bad"
            /\ pc' = [pc EXCEPT ![Main] = "ended"]
            /\ result' = [result EXCEPT ![Main] = "panic"]
            /\ UNCHANGED <<collected, pending, stepsRun>>
    /\ UNCHANGED <<colvars, srcPos>>

NextCollect == GivenSource \/ CollectOpen \/ CollectNext \/ CollectStep

CollectSpec == InitSeq /\ [][NextCollect]_vars

\* the screen arithmetic on its own
InitScreen == InitSeq

NextScreen == Show \/ LogMessage \/ Ellipsize

ScreenSpec == InitScreen /\ [][NextScreen]_vars

\* ---- the logging run: run_parallel_with_logs of pipeline.rs ------------------

\* the items `source.read(filter)?` yields: cards and Err items
LogKinds == Cards \cup {"rerr"}

\* a WorkerMsg: Total{n}, IterStart, IterErr (card "none" for a read
\* error), IterOk, Ok, Err
WorkerMsg(ev, worker, index, card) ==
    [ev |-> ev, worker |-> worker, index |-> index, card |-> card]

\* a LogMsg: Total(n), or Progress/Warn/Running/Error/Success of an id
LogMsg(msg, id, n) == [msg |-> msg, id |-> id, n |-> n]

\* WorkerMsg::log: the LogMsg sent for an event
log(e) ==
    CASE e.ev = "Total" -> LogMsg("Total", 0, e.index)
      [] e.ev = "IterStart" -> LogMsg("Running", e.worker, 0)
      [] e.ev = "IterErr" -> LogMsg("Warn", e.worker, 0)
      [] e.ev = "IterOk" -> LogMsg("Progress", e.worker, 0)
      [] e.ev = "Ok" -> LogMsg("Success", e.worker, 0)
      [] e.ev = "Err" -> LogMsg("Error", e.worker, 0)

\* the Receiver<WorkerMsg> lives in run_parallel_with_logs until it
\* returns, the Receiver<LogMsg> in the ProgressBar thread until it ends
RxAlive == logMain.at # "ended"
BarRxAlive == bar.at # "ended"

\* tx.send(event) in thread t, which goes on at `next` (with `res` the
\* Result of its closure); the send fails once the receiver is dropped,
\* and with `?` the closure returns the Err
ThreadSend(t, e, next, res) ==
    IF RxAlive
    THEN /\ events' = Append(events, e)
         /\ pc' = [pc EXCEPT ![t] = next]
         /\ result' = [result EXCEPT ![t] = res]
    ELSE /\ events' = events
         /\ pc' = [pc EXCEPT ![t] = "ended"]
         /\ result' = [result EXCEPT ![t] = "err"]

\* tx.send(msg)? in run_parallel_with_logs, which goes on as `next`
MainSend(m, next) ==
    IF BarRxAlive
    THEN /\ logs' = Append(logs, m)
         /\ logMain' = next
    ELSE /\ logs' = logs
         /\ logMain' = [logMain EXCEPT !.at = "ended", !.res = "err",
                                       !.tx = FALSE]

\* what the logging run leaves alone
logvars == <<reqWorkers, avail, nWorkers, capacity, srcLen, srcKinds, cvars,
             doneCalls, batch, dvars, collected, stepsRun, screen, jvars,
             hvars, evars, lvars, prsvars>>

\* the source the run is called on
LogSource ==
    /\ logMain.at = "source"
    /\ \E n \in 0..srcLen : src' \in [1..n -> srcKinds]
    /\ logMain' = [logMain EXCEPT !.at = "start"]
    /\ UNCHANGED <<logvars, qvars, pvars, cur, pc, result, events, logs, bar>>

\* run_parallel (`ImgBackend::new()?`, `template.source(key)?`, the spawns)
\* and ProgressBar::spawn_stderr(workers.len() - 1)
LogRunParallel ==
    /\ logMain.at = "start"
    /\ \/ /\ logMain' = [logMain EXCEPT !.at = "ended", !.res = "err"]
          /\ UNCHANGED <<pc, bar>>
       \/ /\ pc' = [t \in Threads |->
                      IF t = Producer THEN "l_read" ELSE "spawned"]
          /\ bar' = NewBar(nWorkers)
          /\ logMain' = [logMain EXCEPT !.at = "recv", !.tx = TRUE]
    /\ UNCHANGED <<logvars, qvars, pvars, cur, result, src, events, logs>>

\* the producer: `source.read(filter)?`
LogProducerRead ==
    /\ pc[Producer] = "l_read"
    /\ \/ /\ pc' = [pc EXCEPT ![Producer] = "l_next"]
          /\ UNCHANGED result
       \/ /\ pc' = [pc EXCEPT ![Producer] = "ended"]
          /\ result' = [result EXCEPT ![Producer] = "err"]
    /\ UNCHANGED <<logvars, qvars, pvars, cur, src, gvars>>

\* one turn of the producer's loop up to the push: the end of the
\* iterator, an Err item reported with send_iter_read_err, or a card
LogProducerNext ==
    /\ pc[Producer] = "l_next"
    /\ IF srcPos = Len(src)
       THEN /\ pc' = [pc EXCEPT ![Producer] = "l_done"]
            /\ UNCHANGED <<pvars, events, result>>
       ELSE /\ srcPos' = srcPos + 1
            /\ total' = total + 1
            /\ IF src[srcPos + 1] = "rerr"
               THEN /\ ThreadSend(Producer,
                                  WorkerMsg("IterErr", 0, srcPos, "none"),
                                  "l_next", "none")
                    /\ UNCHANGED pending
               ELSE /\ pending' = [index |-> srcPos, card |-> src[srcPos + 1]]
                    /\ pc' = [pc EXCEPT ![Producer] = "l_push"]
                    /\ UNCHANGED <<events, result>>
    /\ UNCHANGED <<logvars, qvars, cur, src, logs, logMain, bar>>

\* queue.push(index, card)?, which waits while the queue is full
LogPush ==
    /\ pc[Producer] = "l_push"
    /\ Len(queue) < capacity
    /\ queue' = PushBack(queue, pending)
    /\ pending' = NoEntry
    /\ pc' = [pc EXCEPT ![Producer] = "l_next"]
    /\ UNCHANGED <<logvars, done, srcPos, total, cur, result, src, gvars>>

\* queue.done()?
LogDone ==
    /\ pc[Producer] = "l_done"
    /\ done' = DoneFlag(done)
    /\ pc' = [pc EXCEPT ![Producer] = "l_total"]
    /\ UNCHANGED <<logvars, queue, pvars, cur, result, src, gvars>>

\* WorkerMsg::send_total(&tx, total), the value of the closure
LogTotal ==
    /\ pc[Producer] = "l_total"
    /\ ThreadSend(Producer, WorkerMsg("Total", 0, total, "none"), "ended", "ok")
    /\ UNCHANGED <<logvars, qvars, pvars, cur, src, logs, logMain, bar>>

\* Worker::run up to its loop: `template.decoder()?`; on Err the closure
\* sends Err{worker} and returns what the send returned
LogWorkerStart(w) ==
    /\ pc[w] = "spawned"
    /\ \/ /\ pc' = [pc EXCEPT ![w] = "l_pop"]
          /\ UNCHANGED <<events, result>>
       \/ ThreadSend(w, WorkerMsg("Err", w, 0, "none"), "ended", "ok")
    /\ UNCHANGED <<logvars, qvars, pvars, cur, src, logs, logMain, bar>>

\* queue.pop()? and send_iter_start, or None, Ok(()) of run and
\* send_ok(&tx, id)
LogPop(w) ==
    /\ pc[w] = "l_pop"
    /\ queue # <<>> \/ done
    /\ IF queue = <<>>
       THEN /\ ThreadSend(w, WorkerMsg("Ok", w, 0, "none"), "ended", "ok")
            /\ UNCHANGED <<queue, cur>>
       ELSE /\ queue' = PopRest(queue)
            /\ cur' = [cur EXCEPT ![w] = PopHead(queue)]
            /\ ThreadSend(w, WorkerMsg("IterStart", w, PopHead(queue).index,
                                       PopHead(queue).card),
                          "l_process", "none")
    /\ UNCHANGED <<logvars, done, pvars, src, logs, logMain, bar>>

\* process and send_iter_ok or send_iter_err; a card whose processing
\* fails returns Err from one of decode, render and output, or panics
LogProcess(w) ==
    /\ pc[w] = "l_process"
    /\ \/ /\ cur[w].card = "ok"
          /\ ThreadSend(w, WorkerMsg("IterOk", w, cur[w].index, cur[w].card),
                        "l_pop", "none")
       \/ /\ cur[w].card = "bad"
          /\ ThreadSend(w, WorkerMsg("IterErr", w, cur[w].index, cur[w].card),
                        "l_pop", "none")
       \/ /\ cur[w].card = "bad"
          /\ pc' = [pc EXCEPT ![w] = "ended"]
          /\ result' = [result EXCEPT ![w] = "panic"]
          /\ UNCHANGED events
    /\ cur' = [cur EXCEPT ![w] = NoEntry]
    /\ UNCHANGED <<logvars, qvars, pvars, src, logs, logMain, bar>>

\* `while let Ok(event) = rx.recv() { event.log(&tx)?; }`: the next event,
\* or the end of the loop when every Sender<WorkerMsg> is dropped
LogRecv ==
    /\ logMain.at = "recv"
    /\ IF logMain.recvd < Len(events)
       THEN MainSend(log(events[logMain.recvd + 1]),
                     [logMain EXCEPT !.recvd = @ + 1])
       ELSE /\ \A t \in Threads : pc[t] = "ended"
            /\ logMain' = [logMain EXCEPT !.at = "join"]
            /\ UNCHANGED logs
    /\ UNCHANGED <<logvars, qvars, pvars, cur, pc, result, src, events, bar>>

\* worker.join() of handle i: LogMsg::Error(i, ..) for Ok(Err(e)) and for
\* a panic
LogJoin ==
    /\ logMain.at = "join"
    /\ logMain.i <= nWorkers
    /\ IF result[logMain.i] = "ok"
       THEN /\ logMain' = [logMain EXCEPT !.i = @ + 1]
            /\ UNCHANGED logs
       ELSE MainSend(LogMsg("Error", logMain.i, 0),
                     [logMain EXCEPT !.i = @ + 1])
    /\ UNCHANGED <<logvars, qvars, pvars, cur, pc, result, src, events, bar>>

\* tx.send(LogMsg::Success(0, "done!"))?
LogSuccess ==
    /\ logMain.at = "join"
    /\ logMain.i = nWorkers + 1
    /\ MainSend(LogMsg("Success", 0, 0), [logMain EXCEPT !.at = "drop"])
    /\ UNCHANGED <<logvars, qvars, pvars, cur, pc, result, src, events, bar>>

\* drop(tx)
LogDropTx ==
    /\ logMain.at = "drop"
    /\ logMain' = [logMain EXCEPT !.at = "joinbar", !.tx = FALSE]
    /\ UNCHANGED <<logvars, qvars, pvars, cur, pc, result, src, events, logs,
                   bar>>

\* handle.join().map_err(|_| Error::thread_join(0))?
LogJoinBar ==
    /\ logMain.at = "joinbar"
    /\ bar.at = "ended"
    /\ logMain' = [logMain EXCEPT !.at = "ended",
                     !.res = IF bar.res = "ok" THEN "ok" ELSE "err"]
    /\ UNCHANGED <<logvars, qvars, pvars, cur, pc, result, src, events, logs,
                   bar>>

\* ---- the ProgressBar thread of logs.rs ------------------------------------------

\* how a terminal operation fails: an Err of I/O returned with `?`, or a
\* panic of the screen arithmetic
BarFailures == {"err", "panic"}

\* the thread ends with a failure
BarFail(b, r) == [b EXCEPT !.at = "ended", !.res = r]

\* set_total
set_total(b, n) == [b EXCEPT !.total = n]

\* progress: `if id > 0 { counts[id] += 1 } counts[0] += 1`
progress(b, id) ==
    [b EXCEPT !.counts =
        [i \in DOMAIN @ |-> IF i = 0 \/ i = id THEN @[i] + 1 ELSE @[i]]]

\* running, error, success: `self.status[id] = ..`
set_status(b, id, st) == [b EXCEPT !.status[id] = st]

\* warn: one WARN line written
warn(b) == [b EXCEPT !.warns = @ + 1]

\* the arm of the match of spawn for a message
Apply(b, m) ==
    CASE m.msg = "Total" -> set_total(b, m.n)
      [] m.msg = "Progress" -> progress(b, m.id)
      [] m.msg = "Warn" -> warn(b)
      [] m.msg = "Info" -> b
      [] OTHER -> set_status(b, m.id, m.msg)

\* mutant: Disconnected as soon as no Sender is left
try_recv_disconnected_early(n, alive) == ~alive

\* try_recv: Err(Disconnected) when no message is left and every Sender
\* is dropped
try_recv_disconnected(n, alive) == n = Len(logs) /\ ~alive

\* Self::new(n_workers, tty)?: the newlines and show()
BarNew ==
    /\ bar.at = "new"
    /\ \/ bar' = [bar EXCEPT !.at = "loop"]
       \/ \E r \in BarFailures : bar' = BarFail(bar, r)
    /\ UNCHANGED <<logvars, qvars, pvars, cur, pc, result, src, events, logs,
                   logMain>>

\* one turn of the loop on Ok(msg): the arm of the message, then
\* pbar.update()?; info and warn fail if log_message does, update if show
\* does
BarRecv ==
    /\ bar.at = "loop"
    /\ bar.recvd < Len(logs)
    /\ LET m == logs[bar.recvd + 1]
           got == [bar EXCEPT !.recvd = @ + 1]
       IN  \/ bar' = Apply(got, m)
           \/ \E r \in BarFailures : bar' = BarFail(Apply(got, m), r)
           \/ /\ m.msg \in {"Warn", "Info"}
              /\ \E r \in BarFailures : bar' = BarFail(got, r)
    /\ UNCHANGED <<logvars, qvars, pvars, cur, pc, result, src, events, logs,
                   logMain>>

\* one turn of the loop on Err(Empty): the sleep, then pbar.update()?,
\* which changes something only if it fails
BarIdle ==
    /\ bar.at = "loop"
    /\ bar.recvd = Len(logs)
    /\ ~try_recv_disconnected(bar.recvd, logMain.tx)
    /\ \E r \in BarFailures : bar' = BarFail(bar, r)
    /\ UNCHANGED <<logvars, qvars, pvars, cur, pc, result, src, events, logs,
                   logMain>>

\* Err(Disconnected): break, and `pbar.show().map_err(Error::io_error)`
BarDisconnected ==
    /\ bar.at = "loop"
    /\ try_recv_disconnected(bar.recvd, logMain.tx)
    /\ \/ bar' = [bar EXCEPT !.at = "ended", !.res = "ok"]
       \/ \E r \in BarFailures : bar' = BarFail(bar, r)
    /\ UNCHANGED <<logvars, qvars, pvars, cur, pc, result, src, events, logs,
                   logMain>>

BarStep == BarNew \/ BarRecv \/ BarIdle \/ BarDisconnected

LogThreadStep ==
    \/ LogProducerRead \/ LogProducerNext \/ LogPush \/ LogDone \/ LogTotal
    \/ \E w \in Workers : LogWorkerStart(w) \/ LogPop(w) \/ LogProcess(w)

LogMainStep ==
    \/ LogSource \/ LogRunParallel \/ LogRecv \/ LogJoin \/ LogSuccess
    \/ LogDropTx \/ LogJoinBar

\* a run of NWorkers workers: `CardQueue::new(nw * 2)`
InitLog ==
    /\ reqWorkers = NWorkers
    /\ avail = NWorkers
    /\ nWorkers = NWorkers
    /\ capacity = NWorkers * 2
    /\ srcLen = MaxCards
    /\ srcKinds = LogKinds
    /\ InitRun
    /\ InitNoValues

NextLog == LogMainStep \/ LogThreadStep \/ BarStep

LogSpec == InitLog /\ [][NextLog]_vars

\* ---- a ProgressBar used on its own ----------------------------------------------

\* the messages a Sender<LogMsg> can send to a ProgressBar of n workers
LogMsgs(n) ==
    {LogMsg("Total", 0, 1)} \cup
    {LogMsg(k, id, 0) :
        k \in {"Progress", "Info", "Warn", "Running", "Error", "Success"},
        id \in 0..n}

\* what a ProgressBar used on its own leaves alone
barvars == <<logvars, qvars, pvars, cur, pc, result, src, events>>

\* ProgressBar::spawn(n_workers, tty): the channel and the thread
BarSpawn ==
    /\ logMain.at = "source"
    /\ bar' = NewBar(nWorkers)
    /\ logMain' = [logMain EXCEPT !.at = "sender", !.tx = TRUE]
    /\ UNCHANGED <<barvars, logs>>

\* tx.send(msg) of the holder of the Sender; with the receiver dropped it
\* returns Err and nothing is sent
SenderSend ==
    /\ logMain.at = "sender"
    /\ logMain.tx
    /\ BarRxAlive
    /\ Len(logs) < MaxMsgs
    /\ \E m \in LogMsgs(nWorkers) : logs' = Append(logs, m)
    /\ UNCHANGED <<barvars, logMain, bar>>

\* drop(tx) of the only Sender
SenderDrop ==
    /\ logMain.at = "sender"
    /\ logMain.tx
    /\ logMain' = [logMain EXCEPT !.tx = FALSE]
    /\ UNCHANGED <<barvars, logs, bar>>

\* a ProgressBar of one worker
InitBar ==
    /\ reqWorkers = 1
    /\ avail = 1
    /\ nWorkers = 1
    /\ capacity = 0
    /\ srcLen = 0
    /\ srcKinds = {}
    /\ InitRun
    /\ InitNoValues

NextBar == BarSpawn \/ SenderSend \/ SenderDrop \/ BarStep

BarSpec == InitBar /\ [][NextBar]_vars

\* Scheduling: the ProgressBar thread is an OS thread, it runs as long as
\* it can take a step
BarFairSpec == BarSpec /\ WF_vars(BarStep)

\* ---- the predicate parser of data/predicate.rs ----------------------------------

\* a Token: its variant and its attribute (the text of a key, an operator
\* or a value)
Tok(t, v) == [t |-> t, v |-> v]

\* the lookahead None at the end of the input, and no lookahead read yet
End == Tok("end", "")
NoToken == Tok("none", "")

\* a Symbol: its variant and its attribute; Symbol::Token(t) holds t
Sym(sym, v) == [sym |-> sym, v |-> v]

\* Predicate: `p1 | p2`, `p1 & p2`, `!p`
BitOr(p1, p2) == [p |-> "Or", l |-> p1, r |-> p2]
BitAnd(p1, p2) == [p |-> "And", l |-> p1, r |-> p2]
NotOf(p) == [p |-> "Not", a |-> p]

\* AnyValue::Unit(Value::..) and AnyValue::Set(SetValue::..)
Unit(variant, v) == [any |-> "Unit", variant |-> variant, v |-> v]
SetOf(s) == [any |-> "Set", variant |-> s.variant, v |-> s.v]
SetValue(variant, s) == [variant |-> variant, v |-> s]

\* Operator::predicate: IN takes a set, every other operator a single
\* value
PredErr == [p |-> "Err"]
predicate(op, key, val) ==
    IF (op = "IN") = (val.any = "Set")
    THEN [p |-> op, key |-> key, val |-> val]
    ELSE PredErr

\* no Predicate, and what parse returned: nothing yet, Ok(expr), Err or a
\* panic
NoPred == [p |-> "none"]

\* Error::scan, Error::syntax_error.., Error::predicate_operand
ErrorOf(kind) == [p |-> kind]
NotParsed == [res |-> "none", v |-> NoPred]
Parsed(res, v) == [res |-> res, v |-> v]

\* action_table!: state, lookahead, action and its argument, arm by arm
ActionRows == <<
    <<0, "ParenO", "shift", 4>>, <<0, "Not", "shift", 5>>,
    <<0, "Key", "shift", 6>>, <<0, "_", "error", 0>>,
    <<1, "Or", "shift", 7>>, <<1, "end", "accept", 0>>,
    <<1, "_", "error", 0>>, <<2, "ParenC", "reduce", 2>>,
    <<2, "And", "shift", 8>>, <<2, "Or", "reduce", 2>>,
    <<2, "end", "reduce", 2>>, <<2, "_", "error", 0>>,
    <<3, "ParenC", "reduce", 4>>, <<3, "And", "reduce", 4>>,
    <<3, "Or", "reduce", 4>>, <<3, "end", "reduce", 4>>,
    <<3, "_", "error", 0>>, <<4, "ParenO", "shift", 4>>,
    <<4, "Not", "shift", 5>>, <<4, "Key", "shift", 6>>,
    <<4, "_", "error", 0>>, <<5, "ParenO", "shift", 4>>,
    <<5, "Not", "shift", 5>>, <<5, "Key", "shift", 6>>,
    <<5, "_", "error", 0>>, <<6, "Op", "shift", 14>>,
    <<6, "_", "error", 0>>, <<7, "ParenO", "shift", 4>>,
    <<7, "Not", "shift", 5>>, <<7, "Key", "shift", 6>>,
    <<7, "_", "error", 0>>, <<8, "ParenO", "shift", 4>>,
    <<8, "Not", "shift", 5>>, <<8, "Key", "shift", 6>>,
    <<8, "_", "error", 0>>, <<9, "ParenC", "shift", 13>>,
    <<9, "Or", "shift", 7>>, <<9, "_", "error", 0>>,
    <<10, "ParenC", "reduce", 6>>, <<10, "And", "reduce", 6>>,
    <<10, "Or", "reduce", 6>>, <<10, "end", "reduce", 6>>,
    <<10, "_", "error", 0>>, <<11, "ParenC", "reduce", 1>>,
    <<11, "And", "shift", 8>>, <<11, "Or", "reduce", 1>>,
    <<11, "end", "reduce", 1>>, <<11, "_", "error", 0>>,
    <<12, "ParenC", "reduce", 3>>, <<12, "And", "reduce", 3>>,
    <<12, "Or", "reduce", 3>>, <<12, "end", "reduce", 3>>,
    <<12, "_", "error", 0>>, <<13, "ParenC", "reduce", 5>>,
    <<13, "And", "reduce", 5>>, <<13, "Or", "reduce", 5>>,
    <<13, "end", "reduce", 5>>, <<13, "_", "error", 0>>,
    <<14, "ParenO", "shift", 21>>, <<14, "ValInt", "shift", 16>>,
    <<14, "ValStr", "shift", 20>>, <<14, "ValFloat", "shift", 17>>,
    <<14, "ValBool", "shift", 18>>, <<14, "ValNil", "shift", 19>>,
    <<14, "_", "error", 0>>, <<15, "ParenC", "reduce", 7>>,
    <<15, "And", "reduce", 7>>, <<15, "Or", "reduce", 7>>,
    <<15, "end", "reduce", 7>>, <<15, "_", "error", 0>>,
    <<16, "ParenC", "reduce", 15>>, <<16, "And", "reduce", 15>>,
    <<16, "Or", "reduce", 15>>, <<16, "end", "reduce", 15>>,
    <<16, "_", "error", 0>>, <<17, "ParenC", "reduce", 17>>,
    <<17, "And", "reduce", 17>>, <<17, "Or", "reduce", 17>>,
    <<17, "end", "reduce", 17>>, <<17, "_", "error", 0>>,
    <<18, "ParenC", "reduce", 18>>, <<18, "And", "reduce", 18>>,
    <<18, "Or", "reduce", 18>>, <<18, "end", "reduce", 18>>,
    <<18, "_", "error", 0>>, <<19, "ParenC", "reduce", 19>>,
    <<19, "And", "reduce", 19>>, <<19, "Or", "reduce", 19>>,
    <<19, "end", "reduce", 19>>, <<19, "_", "error", 0>>,
    <<20, "ParenC", "reduce", 16>>, <<20, "And", "reduce", 16>>,
    <<20, "Or", "reduce", 16>>, <<20, "end", "reduce", 16>>,
    <<20, "_", "error", 0>>, <<21, "ValInt", "reduce", 12>>,
    <<21, "ValStr", "reduce", 14>>, <<21, "_", "error", 0>>,
    <<22, "ParenC", "shift", 23>>, <<22, "_", "error", 0>>,
    <<23, "ParenC", "reduce", 8>>, <<23, "And", "reduce", 8>>,
    <<23, "Or", "reduce", 8>>, <<23, "end", "reduce", 8>>,
    <<23, "_", "error", 0>>, <<24, "ValInt", "shift", 25>>,
    <<24, "_", "error", 0>>, <<25, "Comma", "shift", 26>>,
    <<25, "ParenC", "reduce", 9>>, <<25, "_", "error", 0>>,
    <<26, "ValInt", "reduce", 11>>, <<26, "_", "error", 0>>,
    <<27, "ValStr", "shift", 28>>, <<27, "_", "error", 0>>,
    <<28, "Comma", "shift", 29>>, <<28, "ParenC", "reduce", 9>>,
    <<28, "_", "error", 0>>, <<29, "ValStr", "reduce", 13>>,
    <<29, "_", "error", 0>>
>>

\* goto_table!: state, symbol, next state
GotoRows == <<
    <<0, "Ex", 1>>, <<0, "E1", 2>>, <<0, "E2", 3>>,
    <<4, "Ex", 9>>, <<4, "E1", 2>>, <<4, "E2", 3>>,
    <<5, "E2", 10>>, <<7, "E1", 11>>, <<7, "E2", 3>>,
    <<8, "E2", 12>>, <<14, "V", 15>>, <<21, "S", 22>>,
    <<21, "Si", 24>>, <<21, "Ss", 27>>
>>

\* the first arm of the match of parse for a state and a lookahead, the
\* `_` arm of a state for a lookahead without an arm of its own
FirstRow(s, k) ==
    LET ms == {i \in 1..Len(ActionRows) :
                  ActionRows[i][1] = s /\ ActionRows[i][2] \in {k, "_"}}
    IN  IF ms = {} THEN <<s, "_", "error", 0>>
        ELSE ActionRows[CHOOSE i \in ms : \A j \in ms : i <= j]

\* the variants of a lookahead, and the states of the tables
Lookaheads ==
    {"ParenO", "Comma", "ParenC", "Not", "And", "Or", "Key", "Op", "ValStr",
     "ValInt", "ValFloat", "ValBool", "ValNil", "end"}
States == 0..29

\* the match of parse, arm by state and lookahead
ActionTable == [s \in States, k \in Lookaheads |-> FirstRow(s, k)]

\* mutant: AND after `Ex OR E1` reduces like OR
action_and_as_or(s, k) ==
    IF s = 11 /\ k = "And" THEN <<11, "And", "reduce", 1>>
    ELSE ActionTable[s, k]

\* the arm of the match of parse taken
action(s, k) == ActionTable[s, k]

\* Parser::goto; NoState for its unreachable! arm
NoState == -1
goto(state, symbol) ==
    LET ms == {i \in 1..Len(GotoRows) :
                  GotoRows[i][1] = state /\ GotoRows[i][2] = symbol.sym}
    IN  IF ms = {} THEN NoState ELSE GotoRows[CHOOSE i \in ms : TRUE][3]

\* reduce_rules!: the left side of a rule and, for each symbol of its right
\* side, how synthesize! takes it from the arguments: attr! for a
\* non-terminal, token_attr! for a token with a binding, a bare pop for a
\* token without
Rules == <<
    <<"Ex", << <<"attr", "Ex">>, <<"pop", "Or">>, <<"attr", "E1">> >> >>,
    <<"Ex", << <<"attr", "E1">> >> >>,
    <<"E1", << <<"attr", "E1">>, <<"pop", "And">>, <<"attr", "E2">> >> >>,
    <<"E1", << <<"attr", "E2">> >> >>,
    <<"E2", << <<"pop", "ParenO">>, <<"attr", "Ex">>, <<"pop", "ParenC">> >> >>,
    <<"E2", << <<"pop", "Not">>, <<"attr", "E2">> >> >>,
    <<"E2", << <<"token_attr", "Key">>, <<"token_attr", "Op">>,
               <<"attr", "V">> >> >>,
    <<"V", << <<"pop", "ParenO">>, <<"attr", "S">>, <<"pop", "ParenC">> >> >>,
    <<"S", << <<"attr", "Si">>, <<"token_attr", "ValInt">> >> >>,
    <<"S", << <<"attr", "Ss">>, <<"token_attr", "ValStr">> >> >>,
    <<"Si", << <<"attr", "Si">>, <<"token_attr", "ValInt">>,
               <<"pop", "Comma">> >> >>,
    <<"Si", << >> >>,
    <<"Ss", << <<"attr", "Ss">>, <<"token_attr", "ValStr">>,
               <<"pop", "Comma">> >> >>,
    <<"Ss", << >> >>,
    <<"V", << <<"token_attr", "ValInt">> >> >>,
    <<"V", << <<"token_attr", "ValStr">> >> >>,
    <<"V", << <<"token_attr", "ValFloat">> >> >>,
    <<"V", << <<"token_attr", "ValBool">> >> >>,
    <<"V", << <<"pop", "ValNil">> >> >>
>>

\* attr!, token_attr! and the bare pop on a symbol: attr! and token_attr!
\* reach unreachable! on another variant
Takes(how, symbol) ==
    CASE how[1] = "attr" -> symbol.sym = how[2]
      [] how[1] = "token_attr" -> symbol.sym = "Token" /\ symbol.v.t = how[2]
      [] OTHER -> TRUE

\* the value of the braces of rule i on the symbols a of its right side
Synthesized(i, a) ==
    CASE i = 1 -> BitOr(a[1].v, a[3].v)
      [] i = 2 -> a[1].v
      [] i = 3 -> BitAnd(a[1].v, a[3].v)
      [] i = 4 -> a[1].v
      [] i = 5 -> a[2].v
      [] i = 6 -> NotOf(a[2].v)
      [] i = 7 -> predicate(a[2].v.v, a[1].v.v, a[3].v)
      [] i = 8 -> SetOf(a[2].v)
      [] i = 9 -> SetValue("IntSet", a[1].v \cup {a[2].v.v})
      [] i = 10 -> SetValue("StrSet", a[1].v \cup {a[2].v.v})
      [] i = 11 -> a[1].v \cup {a[2].v.v}
      [] i = 12 -> {}
      [] i = 13 -> a[1].v \cup {a[2].v.v}
      [] i = 14 -> {}
      [] i = 15 -> Unit("Int", a[1].v.v)
      [] i = 16 -> Unit("Str", a[1].v.v)
      [] i = 17 -> Unit("Float", a[1].v.v)
      [] i = 18 -> Unit("Bool", a[1].v.v)
      [] i = 19 -> Unit("Nil", "")

\* Parser::reduce(i) on a symbol stack: pop_symbols(n), synthesize!; it
\* panics if the stack is too short or a symbol is of another variant
\* than the rule takes, and returns the Err of op.predicate(key, val)?
reduce(stack, i) ==
    LET n == Len(Rules[i][2])
        rest == SubSeq(stack, 1, Len(stack) - n)
        a == SubSeq(stack, Len(stack) - n + 1, Len(stack))
    IN  IF Len(stack) < n \/ \E j \in 1..n : ~Takes(Rules[i][2][j], a[j])
        THEN [st |-> "panic", rest |-> rest, symbol |-> Sym("None", "")]
        ELSE IF i = 7 /\ Synthesized(i, a) = PredErr
        THEN [st |-> "err", rest |-> rest, symbol |-> Sym("None", "")]
        ELSE [st |-> "ok", rest |-> rest,
              symbol |-> Sym(Rules[i][1], Synthesized(i, a))]

\* what the parser leaves alone
prsrest == <<reqWorkers, avail, nWorkers, capacity, srcLen, srcKinds, cvars,
             doneCalls, batch, dvars, src, collected, stepsRun, screen,
             gvars, handle, handles, runvars>>

\* Parser::new(source), for a source of at most max tokens, each of them
\* one that toks lets follow the one before
ParserNew(toks, max) ==
    /\ state_stack = <<>>
    /\ lexTokens' = toks
    /\ lexMax' = max
    /\ symbol_stack' = <<Sym("None", "")>>
    /\ state_stack' = <<0>>
    /\ UNCHANGED <<prsrest, lexed, token, parsed>>

\* self.next_token()?: the next token of the source, None at its end, or
\* the Err of the scan, with which parse returns
NextToken ==
    \/ /\ Len(lexed) < lexMax
       /\ \E pair \in lexTokens :
             /\ pair[1] = token.t
             /\ pair[2] # End
             /\ token' = pair[2]
             /\ lexed' = Append(lexed, pair[2])
       /\ UNCHANGED parsed
    \/ /\ <<token.t, End>> \in lexTokens
       /\ token' = End
       /\ UNCHANGED <<lexed, parsed>>
    \/ /\ parsed' = Parsed("Err", ErrorOf("scan"))
       /\ UNCHANGED <<lexed, token>>

\* parse up to its loop: `let mut token = self.next_token()?;`
ParseFirst ==
    /\ state_stack # <<>>
    /\ token = NoToken
    /\ parsed = NotParsed
    /\ NextToken
    /\ UNCHANGED <<prsrest, lexTokens, lexMax, symbol_stack, state_stack>>

\* the parser is in its loop
InLoop ==
    /\ state_stack # <<>>
    /\ token # NoToken
    /\ parsed = NotParsed

\* the arm of the match for the state on top and the lookahead
Arm == action(state_stack[Len(state_stack)], token.t)

\* shift!: the token is taken, the next one read, then the token and the
\* state are pushed
ParseShift ==
    /\ InLoop
    /\ Arm[3] = "shift"
    /\ NextToken
    /\ IF parsed' = NotParsed
       THEN /\ symbol_stack' = Append(symbol_stack, Sym("Token", token))
            /\ state_stack' = Append(state_stack, Arm[4])
       ELSE UNCHANGED <<symbol_stack, state_stack>>
    /\ UNCHANGED <<prsrest, lexTokens, lexMax>>

\* reduce!: self.reduce(r)?, the truncate of the state stack, then goto
\* and the two pushes
ParseReduce ==
    /\ InLoop
    /\ Arm[3] = "reduce"
    /\ LET red == reduce(symbol_stack, Arm[4])
           states == SubSeq(state_stack, 1, Len(red.rest))
       IN  CASE red.st = "panic" ->
                  /\ parsed' = Parsed("panic", NoPred)
                  /\ symbol_stack' = red.rest
                  /\ UNCHANGED state_stack
             [] red.st = "err" ->
                  /\ parsed' = Parsed("Err", ErrorOf("predicate_operand"))
                  /\ symbol_stack' = red.rest
                  /\ UNCHANGED state_stack
             [] red.st = "ok" /\
                (states = <<>> \/
                 goto(states[Len(states)], red.symbol) = NoState) ->
                  /\ parsed' = Parsed("panic", NoPred)
                  /\ symbol_stack' = red.rest
                  /\ state_stack' = states
             [] OTHER ->
                  /\ symbol_stack' = Append(red.rest, red.symbol)
                  /\ state_stack' =
                        Append(states, goto(states[Len(states)], red.symbol))
                  /\ UNCHANGED parsed
    /\ UNCHANGED <<prsrest, lexTokens, lexMax, lexed, token>>

\* an error arm, or the `_` arm of the match: Err(syntax_error..)
ParseError ==
    /\ InLoop
    /\ Arm[3] = "error"
    /\ parsed' = Parsed("Err", ErrorOf("syntax_error"))
    /\ UNCHANGED <<prsrest, lexTokens, lexMax, lexed, token, symbol_stack,
                   state_stack>>

\* accept: break, then `if let Some(Symbol::Ex(expr)) = symbol_stack.pop()`
ParseAccept ==
    /\ InLoop
    /\ Arm[3] = "accept"
    /\ symbol_stack' = SubSeq(symbol_stack, 1, Len(symbol_stack) - 1)
    /\ parsed' = IF symbol_stack # <<>> /\
                    symbol_stack[Len(symbol_stack)].sym = "Ex"
                 THEN Parsed("Ok", symbol_stack[Len(symbol_stack)].v)
                 ELSE Parsed("Err", ErrorOf("syntax_error"))
    /\ UNCHANGED <<prsrest, lexTokens, lexMax, lexed, token, state_stack>>

ParseStep == ParseFirst \/ ParseShift \/ ParseReduce \/ ParseError \/ ParseAccept

\* the tokens of a source: one key, = and IN, two integers, a string, a
\* float, a boolean, NULL; any of them, or the end, after any
AllTokens ==
    ({"none"} \cup Lookaheads) \X
    ({Tok(t, "") : t \in {"ParenO", "Comma", "ParenC", "Not", "And", "Or",
                          "ValNil"}} \cup
     {Tok("Key", "a"), Tok("Op", "="), Tok("Op", "IN"), Tok("ValInt", "1"),
      Tok("ValInt", "2"), Tok("ValStr", "s"), Tok("ValFloat", "0.5"),
      Tok("ValBool", "true"), End})

\* the order of the tokens in an expression of comparisons: an operand or
\* NOT or `(` at the start and after NOT, AND, OR and `(`; the operator
\* after the key, the value after the operator; AND, OR, `)` or the end
\* after a value and after `)`
ExprFollows(prev, k) ==
    CASE prev \in {"none", "ParenO", "Not", "And", "Or"} ->
            k \in {"Key", "Not", "ParenO"}
      [] prev = "Key" -> k = "Op"
      [] prev = "Op" -> k = "ValInt"
      [] OTHER -> k \in {"And", "Or", "ParenC", "end"}

\* the tokens of expressions of the comparisons a = 1, b = 1 and c = 1,
\* the parentheses balanced or not
ExprTokens ==
    {pair \in ({"none"} \cup Lookaheads) \X
              ({Tok(t, "") : t \in {"ParenO", "ParenC", "Not", "And", "Or"}} \cup
               {Tok("Key", "a"), Tok("Key", "b"), Tok("Key", "c"),
                Tok("Op", "="), Tok("ValInt", "1"), End}) :
        ExprFollows(pair[1], pair[2].t)}

InitParse == InitSeq

\* the parser on any source of at most MaxTokens tokens
NextParse == ParserNew(AllTokens, MaxTokens) \/ ParseStep

ParseSpec == InitParse /\ [][NextParse]_vars

\* the parser on any expression of at most MaxExprTokens tokens
NextExpr == ParserNew(ExprTokens, MaxExprTokens) \/ ParseStep

ExprSpec == InitParse /\ [][NextExpr]_vars

\* ---- properties -----------------------------------------------------------

Entries == [index : Indices, card : Cards]
PushStates == {"push", "push_wait"}
Occurrences(seq, x) == Cardinality({k \in 1..Len(seq) : seq[k] = x})
PushedIndices == {pushed[k].index : k \in 1..Len(pushed)}

\* C1: the number of queued entries never exceeds the capacity the queue
\* was constructed with
QueueWithinCapacity == Len(queue) <= capacity

\* the queue is full and the producer waits inside push
QueueFullProducerWaits ==
    /\ Len(queue) = capacity
    /\ pc[Producer] = "push_wait"

\* C2: every pushed entry was pushed once, is popped at most once, and the
\* entries popped plus the entries still queued are the entries pushed
NoLossNoDuplication ==
    \A e \in Entries :
        /\ Occurrences(pushed, e) <= 1
        /\ Occurrences(popped, e) <= 1
        /\ Occurrences(popped, e) + Occurrences(queue, e)
             = Occurrences(pushed, e)

\* two workers hold an entry each, the two entries being all that was pushed
TwoWorkersHoldAllPushed ==
    /\ \E v, w \in Workers : v # w /\ cur[v] # NoEntry /\ cur[w] # NoEntry
    /\ Len(pushed) = 2
    /\ queue = <<>>

\* C3: the entries leave the queue in the order the producer pushed them
FifoOrder ==
    /\ Len(popped) <= Len(pushed)
    /\ popped = SubSeq(pushed, 1, Len(popped))
    /\ queue = SubSeq(pushed, Len(popped) + 1, Len(pushed))

\* the older of two entries has left the queue, the newer one is queued
OlderPoppedNewerQueued ==
    /\ capacity >= 2
    /\ Len(pushed) = 2
    /\ popped = <<pushed[1]>>
    /\ queue = <<pushed[2]>>

\* C4 (first half): while the queue is full and no pop happens, a push in
\* progress neither inserts nor returns
FullQueueHoldsPush ==
    [][(/\ pc[Producer] \in PushStates
        /\ Len(queue) >= capacity
        /\ popped' = popped)
       => (/\ pushed' = pushed
           /\ pc'[Producer] \in PushStates)]_vars

\* C4 (second half): a push that had to wait inserts its entry once a pop
\* has made room
BlockedPushCompletes ==
    (/\ waited
     /\ pc[Producer] \in PushStates
     /\ Len(queue) < capacity)
    ~> (pending = NoEntry)

\* C4: backpressure
Backpressure == FullQueueHoldsPush /\ BlockedPushCompletes

\* a push that waited on the full queue has inserted its entry
BlockedPushInserted ==
    /\ waited
    /\ pending = NoEntry
    /\ pc[Producer] = "p_next"
    /\ Len(pushed) >= 2

\* C5: once done() was called, a pop on the empty queue returns None, no
\* worker is waiting in pop, and every worker leaves pop and ends
DoneReleasesWorkers ==
    /\ [][\A w \in Workers :
            (pc[w] = "pop" /\ done /\ queue = <<>> /\ pc'[w] # pc[w])
            => (w \in nones' /\ pc'[w] = "ended")]_vars
    /\ [](done => \A w \in Workers : pc[w] # "pop_wait")
    /\ (done ~> (\A w \in Workers : pc[w] = "ended"))

\* done() woke a worker that was waiting in pop, every worker has got None
\* and ended, and one of them was not waiting when done() was called
BlockedAndLateWorkerGotNone ==
    /\ done
    /\ doneWoke >= 1
    /\ nones = Workers
    /\ Cardinality(nones) > doneWoke
    /\ \A w \in Workers : pc[w] = "ended"

\* C6: when some worker has got None from pop, done is set, the queue is
\* empty and every entry pushed has been given to a worker
NoneOnlyAfterAllDelivered ==
    nones # {} =>
        /\ done
        /\ queue = <<>>
        /\ popped = pushed

\* a worker got None after an entry was popped with done already set
NoneAfterDrainingDoneQueue ==
    /\ nones # {}
    /\ lateCur # {}

OutcomeCount(i) == nOk[i] + nErr[i]
FailingIndices == {pushed[k].index : k \in {j \in 1..Len(pushed) : pushed[j].card = "bad"}}
OkIndices == {i \in Indices : nOk[i] > 0}
ErrIndices == {i \in Indices : nErr[i] > 0}

\* C7: every card the producer got from the source as Ok never has more
\* than one outcome event and eventually has exactly one, on_iter_ok or
\* on_iter_err
EveryCardOneOutcome ==
    \A i \in Indices :
        /\ [](OutcomeCount(i) <= 1)
        /\ ((i \in PushedIndices \/ pending.index = i) ~> (OutcomeCount(i) = 1))

\* C8: when the run is over, exactly the cards whose processing fails have
\* one on_iter_err, exactly the other cards have one on_iter_ok, and the
\* total reported is the number of items read
FailuresIsolated ==
    (joined /\ result[Producer] = "ok") =>
        /\ \A i \in Indices : nOk[i] <= 1 /\ nErr[i] <= 1
        /\ ErrIndices = FailingIndices
        /\ OkIndices = PushedIndices \ FailingIndices
        /\ totals = <<Len(pushed) + Cardinality(readErrs)>>

\* C9: when the producer has returned an error, join still returns
ProducerErrorJoinReturns == (result[Producer] = "err") ~> joined

\* C10: when every worker has returned an error without popping, the
\* producer still ends and join returns
WorkerErrorsJoinReturns ==
    (\A w \in Workers : result[w] = "err")
    ~> (pc[Producer] = "ended" /\ joined)

\* C11: when run_parallel cannot create the image backend or the source
\* cannot be opened, no worker thread has been started and no card has been
\* given to a worker
SetupFailureStartsNoWorker ==
    (handle = "err" \/ (result[Producer] = "err" /\ ~started)) =>
        /\ \A w \in Workers : pc[w] = "unspawned"
        /\ popped = <<>>

\* C12: join returns Ok exactly when the producer read the source to its
\* end and no thread panicked
JoinOkIffSourceReadNoPanic ==
    joined =>
        (joinErr = NoThread
            <=> (/\ result[Producer] = "ok"
                 /\ \A t \in Threads : result[t] # "panic"))

ReadErrorSkipsItemOnly ==
    [][/\ \A i \in readErrs' :
            /\ i < total'
            /\ \A k \in 1..Len(pushed') : pushed'[k].index # i
            /\ pending'.index # i
            /\ nStart'[i] = 0
       /\ readErrs' # readErrs =>
            /\ pc'[Producer] = "p_next"
            /\ readErrs' = readErrs \cup {total}
            /\ total' = total + 1
            /\ pushed' = pushed]_vars

\* the item after a read error was pushed and processed
CardAfterReadErrorProcessed ==
    /\ 0 \in readErrs
    /\ 1 \in PushedIndices
    /\ nOk[1] = 1

\* C15: join returns once the threads up to the first panicked one, in
\* handle order, have ended, with Err(ThreadJoin{i}) for that thread i; with
\* no panic it returns Ok once all threads have ended, whatever Result the
\* workers returned
JoinInHandleOrder ==
    joined =>
        IF FirstPanicked <= NWorkers
        THEN /\ joinErr = FirstPanicked
             /\ \A t \in Threads : t <= FirstPanicked => pc[t] = "ended"
        ELSE /\ joinErr = NoThread
             /\ \A t \in Threads : pc[t] = "ended"

\* worker 1 returned an Err, worker 2 panicked, and join returned
\* Err(ThreadJoin{2})
JoinPassedErrStoppedAtPanic ==
    /\ joined
    /\ result[1] = "err"
    /\ result[2] = "panic"
    /\ joinErr = 2

\* C16: the effective worker count is the smaller of the requested count
\* and the available parallelism (1 when that is unknown), so it lies
\* between 1 and the available parallelism, and a run_parallel that
\* returned Ok has spawned the producer and the workers 1 .. that count
WorkerCountClamped ==
    LET a == IF avail = Unknown THEN 1 ELSE avail IN
    /\ nWorkers > 0 =>
          /\ nWorkers >= 1
          /\ nWorkers <= a
          /\ nWorkers <= reqWorkers
          /\ nWorkers = a \/ nWorkers = reqWorkers
    /\ handle = "ok" =>
          /\ Len(handles) = nWorkers + 1
          /\ \A k \in 1..Len(handles) : handles[k] = k - 1

\* more workers were requested than the machine has, and run_parallel has
\* spawned as many workers as the machine has
RequestAboveAvailableSpawned ==
    /\ avail >= 2
    /\ reqWorkers > avail
    /\ handle = "ok"
    /\ Len(handles) = avail + 1

\* C17: template.output is called for a card only when LayerStack::render
\* has returned Ok with every layer of the decoded stack rendered, and at
\* most once per card; on_iter_ok is reported for a card exactly in the
\* step in which output returned Ok for it; and a finished run in which
\* every started card was reported ok has called output once per card
OutputOnceAfterRender ==
    [][/\ outputs' # outputs =>
            /\ renderRes = "ok"
            /\ canvas = [k \in 1..nLayers |-> k]
            /\ nStart[pending.index] = 1
            /\ \A k \in 1..Len(outputs) : outputs[k].index # pending.index
            /\ Len(outputs') = Len(outputs) + 1
            /\ outputs'[Len(outputs')].index = pending.index
       /\ \A i \in Indices :
            nOk'[i] # nOk[i] <=>
                /\ outputs' # outputs
                /\ outputs'[Len(outputs')] = [index |-> i, ok |-> TRUE]
       /\ (/\ pc'[Main] = "ended"
           /\ \A i \in Indices : nStart'[i] = 1 => nOk'[i] = 1) =>
            Len(outputs') = Cardinality({i \in Indices : nStart'[i] = 1})]_vars

\* the sequential run has ended with every item of the source a card that
\* was reported ok, and one output per card
AllCardsOkAllOutputsWritten ==
    /\ pc[Main] = "ended"
    /\ Main \in finished
    /\ total = MaxCards
    /\ \A i \in 0..(MaxCards - 1) : nOk[i] = 1
    /\ Len(outputs) = MaxCards

\* C18: LayerStack::render starts the layer loop on a new canvas with
\* nothing rendered on it, renders the layers one at a time in the order of
\* the stack, returns Ok only with all of them rendered, and when a layer
\* fails it returns the error with no later layer rendered and no image
\* handed to output
LayersRenderedInOrder ==
    [][/\ (pc[Main] = "canvas" /\ pc'[Main] = "layer") => canvas' = <<>>
       /\ (pc[Main] = "layer" /\ canvas' # canvas) =>
            /\ canvas' = Append(canvas, Len(canvas) + 1)
            /\ Len(canvas') <= nLayers
            /\ renderRes = "none"
       /\ (renderRes' = "ok" /\ renderRes # "ok") =>
            canvas = [k \in 1..nLayers |-> k]
       /\ (renderRes' = "err" /\ renderRes # "err") =>
            /\ canvas' = canvas
            /\ pc'[Main] \notin {"layer", "output"}
            /\ outputs' = outputs
            /\ nErr'[pending.index] = nErr[pending.index] + 1
       /\ renderRes = "err" => (canvas' = canvas /\ outputs' = outputs)]_vars

\* the second layer of a stack failed after the first was rendered
SecondLayerFailedAfterFirst ==
    /\ renderRes = "err"
    /\ canvas = <<1>>
    /\ nLayers >= 2

\* the cards the producer holds in push, the queue holds and the workers
\* hold in process
InFlight ==
    (IF pending # NoEntry THEN 1 ELSE 0) + Len(queue)
        + Cardinality({w \in Workers : cur[w] # NoEntry})

\* the cards read from the source with neither on_iter_ok nor on_iter_err
Unreported ==
    {i \in Indices : i < total /\ i \notin readErrs /\ nOk[i] + nErr[i] = 0}

\* C19: the cards read and not yet reported, in the producer's push, in the
\* queue or with a worker, never number more than capacity + n_workers + 1
BufferedBounded ==
    /\ InFlight <= capacity + NWorkers + 1
    /\ Cardinality(Unreported) <= capacity + NWorkers + 1

\* the queue is full, every worker holds a card and the producer waits in
\* push with one more
EveryPlaceHoldsACard ==
    /\ pc[Producer] = "push_wait"
    /\ Len(queue) = capacity
    /\ \A w \in Workers : cur[w] # NoEntry
    /\ InFlight = capacity + NWorkers + 1
    /\ Cardinality(Unreported) = capacity + NWorkers + 1

\* the number the decimal digits of `digits` write, most significant first
RECURSIVE Decimal(_)
Decimal(digits) ==
    IF digits = <<>> THEN 0
    ELSE 10 * Decimal(SubSeq(digits, 1, Len(digits) - 1))
            + to_digit(digits[Len(digits)])

\* text t writes the integer n: decimal digits, at least one, after at most
\* one sign
Writes(t, n) ==
    \E sign \in {<<>>, <<"+">>, <<"-">>} : \E k \in 1..MaxStrLen :
        /\ Len(t) = Len(sign) + k
        /\ SubSeq(t, 1, Len(sign)) = sign
        /\ LET digits == SubSeq(t, Len(sign) + 1, Len(t)) IN
             /\ \A j \in 1..k : to_digit(digits[j]) >= 0
             /\ n = IF sign = <<"-">> THEN 0 - Decimal(digits) ELSE Decimal(digits)

\* C20: an Int and a Str are equal, whichever is on the left, exactly when
\* the text of the Str writes the integer of the Int, and == gives the same
\* answer with the operands exchanged for any two values
IntStrEqualitySymmetric ==
    /\ (eqLR # <<>> /\ eqRL # <<>>) => eqLR = eqRL
    /\ (lhs.variant = "Int" /\ rhs.variant = "Str") =>
          /\ eqLR # <<>> => (eqLR[1] <=> Writes(rhs.str, lhs.int))
          /\ eqRL # <<>> => (eqRL[1] <=> Writes(rhs.str, lhs.int))
    /\ (lhs.variant = "Str" /\ rhs.variant = "Int") =>
          /\ eqLR # <<>> => (eqLR[1] <=> Writes(lhs.str, rhs.int))
          /\ eqRL # <<>> => (eqRL[1] <=> Writes(lhs.str, rhs.int))

\* Int(5) == Str("5") and Str("5") == Int(5) were evaluated and both hold
IntFiveEqualsStrFive ==
    /\ lhs = IntV(5)
    /\ rhs = StrV(<<"5">>)
    /\ eqLR = <<TRUE>>
    /\ eqRL = <<TRUE>>

\* the on_iter_ok and on_iter_err calls for index i so far
Outcomes(i) == nOk[i] + nErr[i]

\* C21: a worker's events alternate between on_iter_start for the entry it
\* popped and one outcome, on_iter_ok or on_iter_err, for that same entry:
\* a start is emitted by a worker that holds no started entry, an outcome
\* only by a worker for the entry it started, and a worker goes back to
\* pop only with the outcome of its entry reported
WorkerEventProtocol ==
    [][/\ \A w \in Workers :
            /\ (pc[w] = "pop" /\ pc'[w] = "process") =>
                  /\ cur[w] = NoEntry
                  /\ cur'[w] # NoEntry
                  /\ nStart' = [nStart EXCEPT ![cur'[w].index] = @ + 1]
                  /\ nOk' = nOk /\ nErr' = nErr
            /\ (pc[w] = "process" /\ pc'[w] # "process") =>
                  /\ nStart[cur[w].index] >= 1
                  /\ nStart' = nStart
                  /\ \/ /\ pc'[w] = "pop"
                        /\ nOk'[cur[w].index] + nErr'[cur[w].index]
                              = Outcomes(cur[w].index) + 1
                        /\ \A i \in Indices \ {cur[w].index} :
                              nOk'[i] = nOk[i] /\ nErr'[i] = nErr[i]
                     \/ /\ pc'[w] = "ended"
                        /\ nOk' = nOk /\ nErr' = nErr
            /\ pc'[w] = "process" => pc[w] \in {"pop", "process"}
       /\ nStart' # nStart =>
              \E w \in Workers : pc[w] = "pop" /\ pc'[w] = "process"
       /\ (nOk' # nOk \/ nErr' # nErr) =>
              \E w \in Workers : pc[w] = "process" /\ pc'[w] = "pop"]_vars

\* worker 1 alone started and reported two entries one after the other
OneWorkerStartedAndReportedTwo ==
    /\ pc[2] = "w_start"
    /\ Len(popped) = 2
    /\ \A k \in 1..2 : nStart[popped[k].index] = 1 /\ Outcomes(popped[k].index) = 1

\* C22: no wake-up is lost on the one condition variable: a producer
\* blocked in push is never left blocked with room in the queue, and once
\* there is room its push inserts the entry; and while entries are queued
\* and a worker is blocked in pop, another worker has been woken and is
\* about to pop, and a pop follows (the number of pops changes parity)
NoLostWakeup ==
    /\ [](pc[Producer] = "push_wait" => Len(queue) >= capacity)
    /\ (pc[Producer] \in {"push", "push_wait"} /\ Len(queue) < capacity)
          ~> (pending = NoEntry)
    /\ []((queue # <<>> /\ \E w \in Workers : pc[w] = "pop_wait")
            => \E w \in Workers : pc[w] = "pop")
    /\ \A par \in 0..1 :
          (/\ queue # <<>>
           /\ \E w \in Workers : pc[w] = "pop_wait"
           /\ Len(popped) % 2 = par)
          ~> (Len(popped) % 2 # par)

\* both workers were blocked in pop, the notify_one of the first push woke
\* worker 2, and worker 1 is still blocked with the entry queued
PushWokeOneOfTwoWaiters ==
    /\ Len(pushed) = 1
    /\ queue = pushed
    /\ pc[1] = "pop_wait"
    /\ pc[2] = "pop"
    /\ pc[Producer] # "ended"

\* C23: at most one thread holds the queue mutex and it is inside push, pop
\* or done; a worker that processes a card holds read guards on the
\* template and the image backend and nothing else; a thread that wants
\* the mutex can take it unless a thread inside push, pop or done holds
\* it, and that thread can always go on, so no worker waits for the
\* processing of another
MutexOnlyInQueueCalls ==
    /\ Cardinality(MutexHolders) <= 1
    /\ \A t \in MutexHolders : pc[t] \in LockedStates
    /\ \A w \in Workers :
          pc[w] = "process" =>
              /\ w \notin MutexHolders
              /\ ReadGuards(w) = {"template", "image backend"}
              /\ WriteGuards(w) = {}
    /\ \A t \in Threads : \A g \in ReadGuards(t) :
          \A u \in Threads : g \notin WriteGuards(u)
    /\ \A t \in Threads :
          /\ (pc[t] \in {"push", "pop", "done"} /\ ~ENABLED Lock(t)) =>
                \E u \in Threads \ {t} : pc[u] \in LockedStates
          /\ pc[t] = "push_locked" => ENABLED PushAt("push_locked")
          /\ pc[t] = "done_locked" => ENABLED DoneAt("done_locked")
          /\ pc[t] = "pop_locked" => ENABLED PopAt(t, "pop_locked")

\* every worker processes a card of its own while the producer, inside
\* push with the mutex, inserts one more
AllWorkersProcessProducerPushes ==
    /\ \A w \in Workers : pc[w] = "process"
    /\ \A v, w \in Workers : v # w => cur[v].index # cur[w].index
    /\ pc[Producer] = "push_locked"
    /\ Len(queue) < capacity

\* C24: on_total is called at most once, in the run of a producer that
\* read its source to the end and returns Ok, with done set and every push
\* made, and its value is the number of items enumerated, the cards pushed
\* and the Err items reported together; once done is set nothing is pushed
TotalOnceAfterDone ==
    [][/\ Len(totals') <= 1
       /\ (result'[Producer] = "ok") <=> (Len(totals') = 1)
       /\ totals' # totals =>
            /\ done'
            /\ pending = NoEntry
            /\ pc'[Producer] = "ended"
            /\ totals' = <<Len(pushed) + Cardinality(readErrs)>>
       /\ done => (done' /\ pushed' = pushed /\ readErrs' = readErrs)
       /\ totals # <<>> => totals' = totals]_vars

\* the total of a source of one card and one Err item was reported
TotalCountsCardAndReadError ==
    /\ totals = <<2>>
    /\ Len(pushed) = 1
    /\ Cardinality(readErrs) = 1
    /\ done

\* the indices given to cards so far: those of the entries pushed or being
\* pushed (parallel run) and of the cards started (sequential run)
CardIndices ==
    PushedIndices \cup {i \in Indices : nStart[i] > 0}
        \cup (IF pending = NoEntry THEN {} ELSE {pending.index})

\* C25: in a sequential and in a parallel run alike, an item accepted by
\* on_read gets as index the number of items accepted before it: the
\* indices of the cards and the indices of the read errors are disjoint,
\* no index is given to two pushed cards, and together they are 0..total-1
IndicesAreReadPositions ==
    /\ CardIndices \cap readErrs = {}
    /\ CardIndices \cup readErrs = 0..(total - 1)
    /\ Cardinality(PushedIndices) = Len(pushed)
    /\ \A i \in Indices : nStart[i] <= 1

\* a read error took index 0 and the card after it index 1, in a parallel
\* run
ReadErrorThenCardIndexed ==
    /\ handle = "ok"
    /\ readErrs = {0}
    /\ PushedIndices = {1}
    /\ total = 2

\* C26: the cards are pushed with strictly increasing index; in a run of
\* one worker on_iter_start is called for a card only when every card
\* pushed before it has its outcome and no later card has been started, and
\* an outcome is reported before any later card is started
PushedInOrderOneWorkerInOrder ==
    [][/\ \A k \in 1..(Len(pushed') - 1) :
            pushed'[k].index < pushed'[k + 1].index
       /\ nWorkers = 1 =>
            \A i \in Indices :
               /\ nStart'[i] # nStart[i] =>
                     \A j \in Indices :
                        /\ j > i => nStart[j] = 0
                        /\ (j < i /\ j \in PushedIndices) => Outcomes(j) = 1
               /\ (nOk'[i] # nOk[i] \/ nErr'[i] # nErr[i]) =>
                     \A j \in Indices : j > i => nStart[j] = 0]_vars

\* in a run of two workers the outcome of card 1 is reported while card 0
\* is still in process
LaterCardReportedFirst ==
    /\ nWorkers = 2
    /\ Outcomes(1) = 1
    /\ Outcomes(0) = 0
    /\ \E w \in Workers : pc[w] = "process" /\ cur[w].index = 0

\* C27: the done flag, once set, is set in every later state, whatever is
\* pushed and popped, and a call of done() on a queue that is done changes
\* neither the flag nor the entries queued
DoneStaysSet ==
    [][/\ done => done'
       /\ doneCalls' # doneCalls =>
            /\ done'
            /\ queue' = queue
            /\ done => (done' = done)]_vars

\* done() was called before anything was pushed and again after a push and
\* a pop, and the flag is set
DoneCalledAgainAfterPushAndPop ==
    /\ Len(doneCalls) = 2
    /\ doneCalls[1] = 0
    /\ doneCalls[2] >= 2
    /\ pushed # <<>>
    /\ popped # <<>>
    /\ done

\* the batch size of the last Some passed to set_batch_size, NoBatch if
\* there is none
RECURSIVE LastSome(_)
LastSome(opts) ==
    IF opts = <<>> THEN NoBatch
    ELSE IF opts[Len(opts)] # NoBatch THEN opts[Len(opts)]
    ELSE LastSome(SubSeq(opts, 1, Len(opts) - 1))

\* C28: the capacity of the queue is twice the clamped worker count unless
\* a batch size b was passed as Some(b), and then it is b; passing None
\* changes nothing; once run_parallel has built the queue the capacity
\* stays as it is
CapacityFromOptions ==
    /\ [](nWorkers > 0 =>
             capacity = IF LastSome(batch) = NoBatch
                        THEN 2 * check_n_workers(reqWorkers, avail)
                        ELSE LastSome(batch))
    /\ [][handle # "none" => capacity' = capacity]_vars

\* a run whose options were given Some(3) and then None has joined, with
\* a queue of capacity 3, which is not twice its worker count
BatchThreeThenNoneRan ==
    /\ batch = <<3, NoBatch>>
    /\ capacity = 3
    /\ nWorkers = NWorkers
    /\ joined
    /\ popped # <<>>

\* worker w got past `template.decoder()?`
HasDecoder(w) ==
    /\ pc[w] \notin {"unspawned", "w_start"}
    /\ ~(pc[w] = "ended" /\ result[w] = "err")

\* C29 as stated: when the threads of a run have ended every worker has
\* created one decoder, so that the decoders are as many as the workers
EveryWorkerCreatedOneDecoder ==
    (\A t \in 0..nWorkers : pc[t] = "ended") =>
        \A w \in 1..nWorkers : decCreated[w] = 1

\* C29: a worker creates no decoder before `template.decoder()` has
\* succeeded in its run and one from then on, so that it has one whenever
\* it pops; a worker whose `template.decoder()` fails creates none; every
\* decode uses the decoder the decoding thread created itself, so that no
\* decoder is used by two threads
DecoderPerWorker ==
    /\ \A w \in Workers :
          decCreated[w] = IF HasDecoder(w) THEN 1 ELSE 0
    /\ \A w \in Workers :
          pc[w] \in {"pop", "pop_wait", "process"} => decCreated[w] = 1
    /\ \A u \in decUsed : u[1] = u[2] /\ decCreated[u[2]] = 1
    /\ \A u, v \in decUsed : u[2] = v[2] => u[1] = v[1]

\* all threads have ended; worker 1 could not create its decoder and
\* worker 2 decoded a card with the one it created
OneWorkerWithoutDecoderOtherDecoded ==
    /\ \A t \in Threads : pc[t] = "ended"
    /\ decCreated[1] = 0
    /\ result[1] = "err"
    /\ decCreated[2] = 1
    /\ <<2, 2>> \in decUsed

\* the run is a parallel one, started by run_parallel
IsParallel == handle = "ok"

\* the run is a sequential one, started by run
IsSequential == handle = "none" /\ pc[Main] # "unspawned"

\* C30 as stated: when join has returned, on_finish was invoked for every
\* worker and for id 0; when a sequential run has ended, for id 0
EveryFinishReported ==
    /\ joined => \A t \in 0..nWorkers : t \in finished
    /\ IsSequential /\ pc[Main] = "ended" => Main \in finished

\* C30: a worker whose run returns, with Ok or with Err, invokes on_finish
\* in the step in which it ends, not before and never again, and nothing of
\* it follows; a worker that panics invokes none.  on_finish(0) of a
\* parallel run is invoked in the step in which join returns Ok, when
\* every thread has ended, and not at all when join returns
\* Err(ThreadJoin).  A sequential run invokes on_finish(0) in the step in
\* which run returns, and not when a panic unwinds it.  No event of any
\* kind follows on_finish(0).
FinishEvents ==
    [][/\ \A w \in Workers :
            /\ IsParallel /\ pc[w] # "ended" /\ pc'[w] = "ended" =>
                  IF result'[w] = "panic"
                  THEN w \notin finished'
                  ELSE w \notin finished /\ w \in finished'
            /\ IsParallel /\ w \in finished =>
                  /\ pc[w] = "ended"
                  /\ pc'[w] = "ended"
                  /\ w \in finished'
                  /\ result'[w] = result[w]
       /\ IsParallel /\ ~joined /\ joined' =>
            IF joinErr' = NoThread
            THEN /\ \A t \in 0..nWorkers : pc[t] = "ended"
                 /\ Producer \notin finished
                 /\ Producer \in finished'
            ELSE Producer \notin finished'
       /\ IsParallel /\ ~joined' => Producer \notin finished'
       /\ IsSequential /\ pc[Main] # "ended" /\ pc'[Main] = "ended" =>
            IF result'[Main] = "panic"
            THEN Main \notin finished'
            ELSE Main \notin finished /\ Main \in finished'
       /\ IsSequential /\ pc'[Main] # "ended" => Main \notin finished'
       /\ 0 \in finished => evars' = evars]_vars

\* join has returned Ok: on_finish was invoked for worker 1, whose run
\* returned an Err, for worker 2, which processed a card, and for id 0
ErrWorkerAndJoinReportedFinish ==
    /\ joined
    /\ joinErr = NoThread
    /\ result[1] = "err"
    /\ finished = Threads
    /\ popped # <<>>

\* an event other than on_start and on_finish was delivered
SomeItemEvent ==
    \/ readErrs # {}
    \/ totals # <<>>
    \/ \E i \in Indices : nStart[i] + nOk[i] + nErr[i] > 0

\* C32: on_start is invoked in one step only, the one in which the
\* producer thread of a parallel run has opened the source or in which a
\* sequential run begins, before it opens the source; no worker thread
\* invokes it, and no on_read_err, on_iter_start, on_iter_ok, on_iter_err
\* or on_total comes before it
OnStartOnceAndFirst ==
    /\ [](SomeItemEvent => started)
    /\ [](IsParallel =>
            /\ pc[Producer] = "p_open" => ~started
            /\ pc[Producer] \notin {"p_open", "ended"} => started
            /\ pc[Producer] = "ended" /\ ~started =>
                  result[Producer] = "err" /\ srcPos = 0)
    /\ [](IsSequential => started)
    /\ [][started' # started =>
            /\ ~started
            /\ ~SomeItemEvent
            /\ \/ /\ IsParallel
                  /\ pc[Producer] = "p_open"
                  /\ pc'[Producer] = "p_read"
                  /\ \A w \in Workers : pc'[w] = pc[w]
               \/ /\ handle = "none"
                  /\ pc[Main] = "unspawned"
                  /\ pc'[Main] # "unspawned"]_vars

\* in a parallel run worker 1 has ended and reported on_finish, the
\* producer has reported a read error and worker 2 an on_iter_ok
StartedBeforeReadErrAndOutcome ==
    /\ IsParallel
    /\ started
    /\ 1 \in finished
    /\ readErrs # {}
    /\ \E i \in Indices : nOk[i] = 1

\* the items of a source that on_read lets pass, in their order
RECURSIVE Passed(_)
Passed(items) ==
    IF items = <<>> THEN <<>>
    ELSE IF items[1] = "skip" THEN Passed(Tail(items))
    ELSE <<items[1]>> \o Passed(Tail(items))

\* the indices enumerate() gives the items of a kind
IndicesOf(kind) ==
    {i \in Indices : i < Len(Passed(src)) /\ Passed(src)[i + 1] = kind}

\* on_read_err, on_iter_ok and on_iter_err were delivered for the sets of
\* indices errs, oks and bads, once per index
Delivered(errs, oks, bads) ==
    /\ readErrs = errs
    /\ \A i \in Indices : nOk[i] = (IF i \in oks THEN 1 ELSE 0)
    /\ \A i \in Indices : nErr[i] = (IF i \in bads THEN 1 ELSE 0)

\* join has returned Ok
JoinedOk == IsParallel /\ joined /\ joinErr = NoThread

\* run has returned
SeqReturned == IsSequential /\ pc[Main] = "ended" /\ result[Main] # "panic"

JoinOwnsTemplate ==
    /\ [][~joined /\ joined' /\ joinErr' = NoThread =>
            /\ ArcStrongCount = 1
            /\ \A t \in Threads : ReadGuards(t) = {} /\ WriteGuards(t) = {}
            /\ \A t \in 0..nWorkers : result[t] \in {"ok", "err"}]_vars
    /\ [](IsParallel =>
            /\ Len(handles) = nWorkers + 1
            /\ handles[1] = Producer
            /\ \A k \in 1..nWorkers : handles[k + 1] = k)

\* join has returned Ok in a run of NWorkers workers of which the last
\* ended at decoder() and the first processed a card
JoinReachedIntoInner ==
    /\ JoinedOk
    /\ nWorkers = NWorkers
    /\ Len(handles) = NWorkers + 1
    /\ result[NWorkers] = "err"
    /\ 1 \in nones
    /\ popped # <<>>

\* the CardResult of item: Ok(card) after all steps for a card that
\* succeeds, Err((None, e)) for an unreadable item, Err((Some(card), e))
\* from the first step that failed, the steps before it run and none
\* after it, for a card that fails
ResultOf(r, item) ==
    CASE item = "ok" -> r = OkWith("ok", Steps)
      [] item = "rerr" -> r.res = "Err" /\ r.card = "none" /\ r.ran = <<>>
      [] OTHER ->
           /\ r.res = "Err"
           /\ r.card = item
           /\ \E n \in 1..Len(Steps) :
                 r.ran = SubSeq(Steps, 1, n) /\ r.at = Steps[n]

\* C34: the results collected are those of the items yielded so far, one
\* each and in the order of the source, whatever failed before; when run
\* returns Ok the results are those of all items of the source
CollectedPerItem ==
    /\ Len(collected) <= Len(Passed(src))
    /\ \A k \in 1..Len(collected) : ResultOf(collected[k], Passed(src)[k])
    /\ pc[Main] = "ended" /\ result[Main] = "ok" /\ src # <<>> =>
          Len(collected) = Len(Passed(src))

\* run returned Ok with the results of a card that failed at render, then
\* of one that succeeded
FailedAtRenderThenOk ==
    /\ pc[Main] = "ended"
    /\ result[Main] = "ok"
    /\ Len(collected) = 2
    /\ collected[1] = ErrWith("bad", <<"decode", "render">>)
    /\ collected[2].res = "Ok"

\* C38: no computation of the ProgressBar on the terminal size goes below
\* zero, whatever the size, the number of workers and the message
ScreenNeverUnderflows == screen # NoScreen => screen.res.st = "ok"

\* the events of one kind sent on the channel of run_parallel
EventsOf(ev) == {k \in 1..Len(events) : events[k].ev = ev}

\* counts[1] + .. + counts[k]
RECURSIVE SumCounts(_, _)
SumCounts(c, k) == IF k = 0 THEN 0 ELSE c[k] + SumCounts(c, k - 1)

\* C31: when run_parallel_with_logs returns Ok the summary of the progress
\* display is consistent: total is the number of items the producer
\* enumerated, counts[0] is the number of IterOk events and the sum of the
\* counts of the workers, counts[0] <= total, and counts[0] plus the
\* warning lines, one per IterErr, is total
SummaryConsistent ==
    logMain.at = "ended" /\ logMain.res = "ok" =>
        /\ bar.total = total
        /\ bar.counts[0] = Cardinality(EventsOf("IterOk"))
        /\ bar.counts[0] = SumCounts(bar.counts, nWorkers)
        /\ bar.counts[0] <= bar.total
        /\ bar.warns = Cardinality(EventsOf("IterErr"))
        /\ bar.counts[0] + bar.warns = bar.total

\* the messages try_recv has returned with one of the given kinds, and an
\* id if one is given
Received(kinds, ids) ==
    {k \in 1..bar.recvd : logs[k].msg \in kinds /\ logs[k].id \in ids}

\* the last of a non-empty set of positions
Last(ks) == CHOOSE k \in ks : \A j \in ks : j <= k

\* the status the last Running/Error/Success message for a slot sets
StatusMsgs == {"Running", "Error", "Success"}
LastStatus(id) ==
    IF Received(StatusMsgs, {id}) = {} THEN "Running"
    ELSE logs[Last(Received(StatusMsgs, {id}))].msg

\* the ProgressBar shows what the messages it received say
BarShowsReceived ==
    bar.at # "unspawned" =>
        /\ \A id \in DOMAIN bar.status : bar.status[id] = LastStatus(id)
        /\ bar.counts[0] = Cardinality(Received({"Progress"}, DOMAIN bar.counts))
        /\ \A id \in DOMAIN bar.counts \ {0} :
               bar.counts[id] = Cardinality(Received({"Progress"}, {id}))
        /\ bar.total = IF Received({"Total"}, {0}) = {} THEN 0
                       ELSE logs[Last(Received({"Total"}, {0}))].n
        /\ bar.res \in {"none", "ok"} =>
               bar.warns = Cardinality(Received({"Warn"}, DOMAIN bar.counts))

\* C35 as stated: the thread ends only with the Sender dropped and every
\* message sent received, it shows what the messages say, and once the
\* Sender is dropped it ends
BarEndsOnlyDrained ==
    /\ [](bar.at = "ended" => ~logMain.tx /\ bar.recvd = Len(logs))
    /\ []BarShowsReceived
    /\ (bar.at # "unspawned" /\ ~logMain.tx ~> bar.at = "ended")

\* C35: the thread applies the messages in the order sent; it ends with
\* Ok only with the Sender dropped and every message sent received, with a
\* failure of a terminal operation it ends at once, the Sender alive or
\* not, and the messages not yet received are dropped; the status of a
\* slot is the one the last Running/Error/Success received for it set;
\* once the Sender is dropped the thread ends
BarEndsDrainedOrFailed ==
    /\ [](bar.at = "ended" =>
            \/ bar.res = "ok" /\ ~logMain.tx /\ bar.recvd = Len(logs)
            \/ bar.res \in BarFailures)
    /\ []BarShowsReceived
    /\ (bar.at # "unspawned" /\ ~logMain.tx ~> bar.at = "ended")

\* the thread ended with Ok after Error, then Success for slot 1
ErrorThenSuccessThenEndedOk ==
    /\ bar.at = "ended"
    /\ bar.res = "ok"
    /\ ~logMain.tx
    /\ bar.recvd = 2
    /\ logs[1] = LogMsg("Error", 1, 0)
    /\ logs[2] = LogMsg("Success", 1, 0)
    /\ bar.status[1] = "Success"

\* C36: on every token sequence the parser keeps its two stacks of equal
\* length while it runs and returns Ok or Err: no reduction, goto or attr!
\* panics, for unit operands, integer sets and string sets alike
ParserNeverPanics ==
    /\ InLoop => Len(state_stack) = Len(symbol_stack)
    /\ parsed.res # "panic"

\* the comparison k = 1 and its tokens
Cmp(k) == predicate("=", k, Unit("Int", "1"))
CmpTokens(k) == <<Tok("Key", k), Tok("Op", "="), Tok("ValInt", "1")>>

\* the tokens of a source yield a Predicate: while they are read parse
\* does not return, but for an Err of the scan, and at the end of the
\* source it returns Ok of the Predicate
Yields(source, p) ==
    /\ Len(lexed) <= Len(source) /\ lexed = SubSeq(source, 1, Len(lexed)) /\
       token \notin {End, NoToken} =>
          parsed = NotParsed \/ parsed = Parsed("Err", ErrorOf("scan"))
    /\ lexed = source /\ token = End /\ InLoop => Arm[3] # "error"
    /\ lexed = source /\ token = End /\ parsed # NotParsed =>
          parsed = Parsed("Ok", p)

\* a Predicate as a source without parentheses yields it: OR never to the
\* right of OR, no OR under AND, AND never to the right of AND, neither
\* under NOT
RECURSIVE NoParensShape(_)
NoParensShape(p) ==
    CASE p.p = "Or" -> /\ p.r.p # "Or"
                       /\ NoParensShape(p.l) /\ NoParensShape(p.r)
      [] p.p = "And" -> /\ p.l.p # "Or" /\ p.r.p \notin {"Or", "And"}
                        /\ NoParensShape(p.l) /\ NoParensShape(p.r)
      [] p.p = "Not" -> p.a.p \notin {"Or", "And"} /\ NoParensShape(p.a)
      [] OTHER -> TRUE

====
